---------------------------- MODULE Spec2Model ----------------------------
(***************************************************************************)
(* The generic list-query handler of the repository: URL query parameters  *)
(* are validated against the entity's zod schema, translated by            *)
(* QueryBuilder into a Prisma query, passed through the entity's hooks,    *)
(* executed (findMany, optionally count) and answered as JSON.             *)
(*                                                                         *)
(* Parameter values are texts: sequences of one-character strings.  The    *)
(* two readings of a number the code uses (Number() inside z.coerce and    *)
(* parseInt inside QueryBuilder) are modelled separately, character by     *)
(* character.                                                              *)
(***************************************************************************)
EXTENDS Integers, Sequences, FiniteSets, TLC

(***************************************************************************)
(* Bounds of the model.                                                    *)
(***************************************************************************)
MaxPage == 3
MaxSkip == 2
MaxRows == 1
MaxTotal == 3

(***************************************************************************)
(* JavaScript values.                                                      *)
(***************************************************************************)
\* searchParams.get(k) of a missing key
Null == <<"null">>

\* a string is truthy unless it is empty; null is falsy
Truthy(v) == v # Null /\ v # <<>>

Int_(n) == [kind |-> "int", val |-> n]
\* a finite non-integer; val is its floor
Float_(n) == [kind |-> "float", val |-> n]
NaN == [kind |-> "nan", val |-> 0]
\* null, where a number may stand
NullNumber == [kind |-> "null", val |-> 0]
Infinity_(sign) == [kind |-> "inf", val |-> sign]

DigitChars == <<"0", "1", "2", "3", "4", "5", "6", "7", "8", "9">>
HexChars == <<"0", "1", "2", "3", "4", "5", "6", "7", "8", "9",
              "a", "b", "c", "d", "e", "f">>
UpperHexChars == <<"0", "1", "2", "3", "4", "5", "6", "7", "8", "9",
                   "A", "B", "C", "D", "E", "F">>

IsDigit(c) == \E i \in 1..10 : DigitChars[i] = c
DigitVal(c) == (CHOOSE i \in 1..10 : DigitChars[i] = c) - 1
IsHexDigit(c) == \E i \in 1..16 : HexChars[i] = c \/ UpperHexChars[i] = c
HexVal(c) == (CHOOSE i \in 1..16 : HexChars[i] = c \/ UpperHexChars[i] = c) - 1

IsSpace(c) == c \in {" ", "\t", "\n"}

RECURSIVE Pow10(_)
Pow10(n) == IF n <= 0 THEN 1 ELSE 10 * Pow10(n - 1)

\* first index >= i of s that is not a white space (Len(s)+1 if none)
RECURSIVE SkipSpaces(_, _)
SkipSpaces(s, i) ==
  IF i <= Len(s) /\ IsSpace(s[i]) THEN SkipSpaces(s, i + 1) ELSE i

\* one past the last index of the white space free part of s
RECURSIVE TrimEnd(_, _)
TrimEnd(s, j) ==
  IF j >= 1 /\ IsSpace(s[j]) THEN TrimEnd(s, j - 1) ELSE j + 1

TrimBetween(s, i, j) == IF i >= j THEN <<>> ELSE SubSeq(s, i, j - 1)

\* String.prototype.trim
Trim(s) == TrimBetween(s, SkipSpaces(s, 1), TrimEnd(s, Len(s)))

\* first index >= i of s that holds no decimal digit
RECURSIVE SpanDigits(_, _)
SpanDigits(s, i) ==
  IF i <= Len(s) /\ IsDigit(s[i]) THEN SpanDigits(s, i + 1) ELSE i

RECURSIVE SpanHex(_, _)
SpanHex(s, i) ==
  IF i <= Len(s) /\ IsHexDigit(s[i]) THEN SpanHex(s, i + 1) ELSE i

\* the number written by the decimal digits s[i..j-1]
RECURSIVE DigitsVal(_, _, _)
DigitsVal(s, i, j) ==
  IF j <= i THEN 0 ELSE 10 * DigitsVal(s, i, j - 1) + DigitVal(s[j - 1])

RECURSIVE HexDigitsVal(_, _, _)
HexDigitsVal(s, i, j) ==
  IF j <= i THEN 0 ELSE 16 * HexDigitsVal(s, i, j - 1) + HexVal(s[j - 1])

HasHexPrefix(s, i) ==
  i + 1 <= Len(s) /\ s[i] = "0" /\ s[i + 1] \in {"x", "X"}

(***************************************************************************)
(* parseInt(text) with no radix: leading white space, a sign, an optional  *)
(* 0x, then the longest run of digits; anything after it is ignored.       *)
(***************************************************************************)
\* the digits s[from..to-1] read as n, negated under a minus sign
ParseIntResult(neg, from, to, n) ==
  IF to = from THEN NaN ELSE Int_(IF neg THEN -n ELSE n)

ParseIntDigits(s, neg, i) ==
  IF HasHexPrefix(s, i)
  THEN ParseIntResult(neg, i + 2, SpanHex(s, i + 2),
                      HexDigitsVal(s, i + 2, SpanHex(s, i + 2)))
  ELSE ParseIntResult(neg, i, SpanDigits(s, i),
                      DigitsVal(s, i, SpanDigits(s, i)))

ParseIntFrom(s, i) ==
  ParseIntDigits(s, i <= Len(s) /\ s[i] = "-",
                 IF i <= Len(s) /\ s[i] \in {"-", "+"} THEN i + 1 ELSE i)

ParseInt(s) == ParseIntFrom(s, SkipSpaces(s, 1))

(***************************************************************************)
(* Number(text), the coercion of z.coerce.number(): the whole trimmed text *)
(* must be a numeric literal; the empty text is 0.                         *)
(***************************************************************************)
\* mant * 10^scale
Scaled(mant, scale) ==
  IF scale >= 0 THEN Int_(mant * Pow10(scale))
  ELSE IF mant % Pow10(-scale) = 0 THEN Int_(mant \div Pow10(-scale))
  ELSE Float_(mant \div Pow10(-scale))

\* digits s[i0..a-1], fraction s[b0..b-1], exponent digits s[c0..c-1]
DecimalValue(s, i0, a, b0, b, c0, c, expNeg) ==
  IF (a > i0 \/ b > b0) /\ (c0 > b => c > c0) /\ c = Len(s) + 1
  THEN Scaled(DigitsVal(s, i0, a) * Pow10(b - b0) + DigitsVal(s, b0, b),
              (IF expNeg THEN -DigitsVal(s, c0, c) ELSE DigitsVal(s, c0, c))
              - (b - b0))
  ELSE NaN

DecimalExponent(s, i0, a, b0, b) ==
  IF b <= Len(s) /\ s[b] \in {"e", "E"}
  THEN (IF b + 1 <= Len(s) /\ s[b + 1] \in {"-", "+"}
        THEN DecimalValue(s, i0, a, b0, b, b + 2, SpanDigits(s, b + 2),
                          s[b + 1] = "-")
        ELSE DecimalValue(s, i0, a, b0, b, b + 1, SpanDigits(s, b + 1),
                          FALSE))
  ELSE DecimalValue(s, i0, a, b0, b, b, b, FALSE)

DecimalFraction(s, i0, a) ==
  IF a <= Len(s) /\ s[a] = "."
  THEN DecimalExponent(s, i0, a, a + 1, SpanDigits(s, a + 1))
  ELSE DecimalExponent(s, i0, a, a, a)

\* the unsigned literal that starts at i0
DecimalLiteral(s, i0) ==
  IF SubSeq(s, i0, Len(s)) = <<"I", "n", "f", "i", "n", "i", "t", "y">>
  THEN Infinity_(1)
  ELSE DecimalFraction(s, i0, SpanDigits(s, i0))

HexLiteral(s) ==
  IF Len(s) >= 3 /\ SpanHex(s, 3) = Len(s) + 1
  THEN Int_(HexDigitsVal(s, 3, Len(s) + 1))
  ELSE NaN

Negated(n) ==
  CASE n.kind = "int" -> Int_(-n.val)
    [] n.kind = "float" -> Float_(-n.val - 1)
    [] n.kind = "inf" -> Infinity_(-1)
    [] OTHER -> n

NumberOfText(s) ==
  IF Len(s) = 0 THEN Int_(0)
  ELSE IF s[1] = "-" THEN Negated(DecimalLiteral(s, 2))
  ELSE IF s[1] = "+" THEN DecimalLiteral(s, 2)
  ELSE IF HasHexPrefix(s, 1) THEN HexLiteral(s)
  ELSE DecimalLiteral(s, 1)

ToNumber(raw) == NumberOfText(Trim(raw))

\* the decimal numeral of a natural number: String(n)
RECURSIVE Str(_)
Str(n) ==
  IF n < 10 THEN <<DigitChars[n + 1]>>
  ELSE Append(Str(n \div 10), DigitChars[(n % 10) + 1])

\* arithmetic on JavaScript numbers as the translator uses it
NumSub(x, k) == IF x.kind = "int" THEN Int_(x.val - k) ELSE NaN
NumMul(x, y) ==
  IF x.kind = "int" /\ y.kind = "int" THEN Int_(x.val * y.val) ELSE NaN
\* Math.min: NaN if either argument is NaN
MathMin(x, k) ==
  IF x.kind = "int" THEN Int_(IF x.val < k THEN x.val ELSE k) ELSE NaN

(***************************************************************************)
(* Texts.                                                                  *)
(***************************************************************************)
Range(s) == {s[i] : i \in DOMAIN s}

Includes(s, c) == \E i \in 1..Len(s) : s[i] = c

\* index of the first c in s at or after i, Len(s)+1 if there is none
RECURSIVE IndexOf(_, _, _)
IndexOf(s, c, i) ==
  IF i > Len(s) \/ s[i] = c THEN i ELSE IndexOf(s, c, i + 1)

\* String.prototype.split on a one-character separator
RECURSIVE Split(_, _)
Split(s, c) ==
  IF ~Includes(s, c) THEN <<s>>
  ELSE <<SubSeq(s, 1, IndexOf(s, c, 1) - 1)>>
       \o Split(SubSeq(s, IndexOf(s, c, 1) + 1, Len(s)), c)

TextTrue == <<"t", "r", "u", "e">>
TextFalse == <<"f", "a", "l", "s", "e">>
TextAsc == <<"a", "s", "c">>
TextDesc == <<"d", "e", "s", "c">>

(***************************************************************************)
(* JavaScript objects are functions from the keys they hold.               *)
(***************************************************************************)
EmptyObj == <<>>
Has(o, k) == k \in DOMAIN o
Put(o, k, v) == [kk \in DOMAIN o \cup {k} |-> IF kk = k THEN v ELSE o[kk]]
JsBool(b) == [bool |-> b]

(***************************************************************************)
(* The model configurations.                                               *)
(***************************************************************************)
userConfig ==
  [stringFields |-> <<"email", "name">>,
   dateFields |-> <<"createdAt", "updatedAt">>,
   booleanFields |-> <<>>,
   numberFields |-> <<>>,
   relations |-> <<[name |-> "posts",
                    searchableFields |-> <<"title", "content">>,
                    booleanFilters |-> <<"hasPublishedPosts", "hasPosts">>]>>,
   defaultOrderBy |-> <<"c", "r", "e", "a", "t", "e", "d", "A", "t">>,
   defaultOrderDir |-> TextDesc,
   defaultLimit |-> 10,
   maxLimit |-> 100]

postConfig ==
  [stringFields |-> <<"title", "content">>,
   dateFields |-> <<"createdAt", "updatedAt">>,
   booleanFields |-> <<"published">>,
   numberFields |-> <<>>,
   relations |-> <<[name |-> "author",
                    searchableFields |-> <<"name", "email">>,
                    booleanFilters |-> <<"hasAuthor">>]>>,
   defaultOrderBy |-> <<"c", "r", "e", "a", "t", "e", "d", "A", "t">>,
   defaultOrderDir |-> TextDesc,
   defaultLimit |-> 20,
   maxLimit |-> 100]

Entities == {"user", "post"}
ConfigOf(entity) == IF entity = "user" THEN userConfig ELSE postConfig

\* field.charAt(0).toUpperCase() + field.slice(1), for the configured fields
Capitalize(field) ==
  CASE field = "title" -> "Title"
    [] field = "content" -> "Content"
    [] field = "name" -> "Name"
    [] field = "email" -> "Email"
    [] OTHER -> field

(***************************************************************************)
(* The validation schemas: the declared keys in declaration order.         *)
(***************************************************************************)
ZString(k) == [key |-> k, kind |-> "string"]
ZInt(k, lo, hi, dflt) ==
  [key |-> k, kind |-> "number", min |-> lo, max |-> hi, default |-> dflt]
ZEnum(k) == [key |-> k, kind |-> "enum"]
ZFlag(k) == [key |-> k, kind |-> "flag"]
ZDatetime(k) == [key |-> k, kind |-> "datetime"]
ZEmail(k) == [key |-> k, kind |-> "email"]

\* no lower bound, no upper bound, no default of a ZInt
None == -1

baseQuerySchema ==
  <<ZString("select"), ZString("include"), ZString("distinct"),
    ZInt("page", 1, None, 1), ZInt("limit", 1, 100, 10),
    ZInt("skip", 0, None, None), ZInt("take", 1, 100, None),
    ZString("cursor"), ZFlag("includeTotalCount"),
    ZString("orderBy"), ZString("orderDir"),
    ZString("and"), ZString("or")>>

userQuerySchema ==
  baseQuerySchema \o
  <<ZString("email"), ZString("name"), ZString("emailContains"),
    ZString("emailStartsWith"), ZString("emailEndsWith"),
    ZString("nameContains"),
    ZDatetime("createdAfter"), ZDatetime("createdBefore"),
    ZDatetime("updatedAfter"), ZDatetime("updatedBefore"),
    ZEnum("hasPublishedPosts"), ZEnum("hasPosts"),
    ZString("postTitleContains")>>

postQuerySchema ==
  baseQuerySchema \o
  <<ZString("title"), ZString("content"), ZString("titleContains"),
    ZString("contentContains"),
    ZEnum("published"),
    ZDatetime("createdAfter"), ZDatetime("createdBefore"),
    ZDatetime("updatedAfter"), ZDatetime("updatedBefore"),
    ZEnum("hasAuthor"), ZString("authorNameContains"),
    ZString("authorEmailContains"), ZEmail("authorEmail"),
    ZEnum("publishedOnly")>>

SchemaOf(entity) ==
  IF entity = "user" THEN userQuerySchema ELSE postQuerySchema

SchemaKeys(entity) == {SchemaOf(entity)[i].key : i \in DOMAIN SchemaOf(entity)}

(***************************************************************************)
(* URLSearchParams: every key holds the values given for it, in the order  *)
(* of the query string.                                                    *)
(***************************************************************************)
\* searchParams.get(key): the first value, null if the key is missing
Get(sp, key) ==
  IF key \notin DOMAIN sp \/ sp[key] = <<>> THEN Null ELSE Head(sp[key])

\* the object validateQuery builds with forEach: a later value of a key
\* overwrites an earlier one
ParamsObject(sp) ==
  [k \in {kk \in DOMAIN sp : sp[kk] # <<>>} |-> sp[k][Len(sp[k])]]

(***************************************************************************)
(* zod.                                                                    *)
(***************************************************************************)
\* z.string().datetime(): YYYY-MM-DDTHH:MM:SS, optional fraction, Z
IsIsoDatetime(s) ==
  /\ Len(s) >= 20
  /\ \A i \in {1, 2, 3, 4, 6, 7, 9, 10, 12, 13, 15, 16, 18, 19} :
       IsDigit(s[i])
  /\ s[5] = "-" /\ s[8] = "-" /\ s[11] = "T"
  /\ s[14] = ":" /\ s[17] = ":"
  /\ s[Len(s)] = "Z"
  /\ \/ Len(s) = 20
     \/ s[20] = "." /\ Len(s) >= 22 /\ SpanDigits(s, 21) = Len(s)

IsAlpha(c) ==
  c \in {"a", "b", "c", "d", "e", "f", "g", "h", "i", "j", "k", "l", "m",
         "n", "o", "p", "q", "r", "s", "t", "u", "v", "w", "x", "y", "z",
         "A", "B", "C", "D", "E", "F", "G", "H", "I", "J", "K", "L", "M",
         "N", "O", "P", "Q", "R", "S", "T", "U", "V", "W", "X", "Y", "Z"}
IsAlnum(c) == IsAlpha(c) \/ IsDigit(c)

\* the part of an address before the @
IsEmailLocal(local) ==
  /\ Len(local) >= 1
  /\ local[1] # "."
  /\ \A i \in 1..Len(local) :
       /\ IsAlnum(local[i]) \/ local[i] \in {"_", "'", "+", "-", "."}
       /\ (i < Len(local) => ~(local[i] = "." /\ local[i + 1] = "."))
  /\ local[Len(local)] \notin {".", "'"}

\* the labels of the part after the @, the last one the top-level domain
IsEmailDomain(labels) ==
  /\ Len(labels) >= 2
  /\ \A i \in 1..(Len(labels) - 1) :
       /\ Len(labels[i]) >= 1
       /\ IsAlnum(labels[i][1])
       /\ \A j \in 1..Len(labels[i]) :
            IsAlnum(labels[i][j]) \/ labels[i][j] = "-"
  /\ Len(labels[Len(labels)]) >= 2
  /\ \A j \in 1..Len(labels[Len(labels)]) :
       IsAlpha(labels[Len(labels)][j])

\* z.string().email(): local@label(.label)*.tld
IsEmail(s) ==
  /\ Includes(s, "@")
  /\ ~Includes(SubSeq(s, IndexOf(s, "@", 1) + 1, Len(s)), "@")
  /\ IsEmailLocal(SubSeq(s, 1, IndexOf(s, "@", 1) - 1))
  /\ IsEmailDomain(Split(SubSeq(s, IndexOf(s, "@", 1) + 1, Len(s)), "."))

Issue(e, msg) == <<[field |-> e.key, message |-> msg]>>

\* the checks .int().min(lo).max(hi) of a coerced number, all reported
NumberIssues(e, n) ==
  (IF n.kind # "int"
   THEN Issue(e, "Expected integer, received float") ELSE <<>>)
  \o (IF e.min # None /\ (IF n.kind = "inf" THEN n.val < 0 ELSE n.val < e.min)
      THEN Issue(e, "Number must be greater than or equal to min") ELSE <<>>)
  \o (IF e.max # None /\
         (CASE n.kind = "inf" -> n.val > 0
            [] n.kind = "float" -> n.val >= e.max
            [] OTHER -> n.val > e.max)
      THEN Issue(e, "Number must be less than or equal to max") ELSE <<>>)

Parsed(issues, present, value) ==
  [issues |-> issues, present |-> present, value |-> value]

\* a declared number against the coerced value n
CoercedNumber(e, n) ==
  IF n.kind = "nan"
  THEN Parsed(Issue(e, "Expected number, received nan"), FALSE, n)
  ELSE Parsed(NumberIssues(e, n), NumberIssues(e, n) = <<>>, n)

\* one declared key against the value v the params object holds for it
\* (Null when it holds none): the issues, and the parsed value if any
ParseField(e, v) ==
  CASE e.kind = "string" -> Parsed(<<>>, v # Null, v)
    [] e.kind = "number" ->
         IF v = Null THEN Parsed(<<>>, e.default # None, Int_(e.default))
         ELSE CoercedNumber(e, ToNumber(v))
    [] e.kind = "enum" ->
         IF v = Null \/ v \in {TextTrue, TextFalse}
         THEN Parsed(<<>>, v # Null, v)
         ELSE Parsed(Issue(e, "Invalid enum value"), FALSE, v)
    [] e.kind = "flag" ->
         IF v = Null \/ v \in {TextTrue, TextFalse}
         THEN Parsed(<<>>, TRUE, v = TextTrue)
         ELSE Parsed(Issue(e, "Invalid enum value"), FALSE, FALSE)
    [] e.kind = "datetime" ->
         IF v = Null \/ IsIsoDatetime(v) THEN Parsed(<<>>, v # Null, v)
         ELSE Parsed(Issue(e, "Invalid datetime"), FALSE, v)
    [] e.kind = "email" ->
         IF v = Null \/ IsEmail(v) THEN Parsed(<<>>, v # Null, v)
         ELSE Parsed(Issue(e, "Invalid email"), FALSE, v)

\* the value the params object holds for a declared key
FieldValue(obj, e) == IF Has(obj, e.key) THEN obj[e.key] ELSE Null

\* the issues of the first n declared keys, in declaration order
RECURSIVE SchemaIssues(_, _, _)
SchemaIssues(schema, obj, n) ==
  IF n = 0 THEN <<>>
  ELSE SchemaIssues(schema, obj, n - 1)
       \o ParseField(schema[n], FieldValue(obj, schema[n])).issues

\* the declared key k of the schema
Declared(schema, k) == CHOOSE e \in Range(schema) : e.key = k

\* the parsed object: the declared keys that hold a value or a default
ParsedData(schema, obj) ==
  [k \in {e.key : e \in {d \in Range(schema) :
                           ParseField(d, FieldValue(obj, d)).present}}
     |-> ParseField(Declared(schema, k),
                    FieldValue(obj, Declared(schema, k))).value]

SafeParseResult(schema, obj, issues) ==
  IF issues = <<>>
  THEN [success |-> TRUE, data |-> ParsedData(schema, obj), errors |-> <<>>]
  ELSE [success |-> FALSE, data |-> EmptyObj, errors |-> issues]

\* schema.safeParse(params): undeclared keys are dropped
SafeParse(schema, obj) ==
  SafeParseResult(schema, obj, SchemaIssues(schema, obj, Len(schema)))

validateQuery(schema, searchParams) ==
  SafeParse(schema, ParamsObject(searchParams))

\* error.errors.map(err => ({field: err.path.join('.'), message}))
formatValidationErrors(errors) ==
  [i \in DOMAIN errors |->
     [field |-> errors[i].field, message |-> errors[i].message]]

(***************************************************************************)
(* JSON.parse, as far as the translator depends on it: whether the text    *)
(* is JSON.  JsonValue and its helpers return the index after the value    *)
(* that starts at i, or 0 if there is none.                                *)
(***************************************************************************)
Matches(s, i, word) ==
  i + Len(word) - 1 <= Len(s) /\ SubSeq(s, i, i + Len(word) - 1) = word

\* the index after the closing quote of the string whose body starts at i
RECURSIVE JsonStringEnd(_, _)
JsonStringEnd(s, i) ==
  IF i > Len(s) THEN 0
  ELSE IF s[i] = "\"" THEN i + 1
  ELSE IF s[i] = "\\" THEN JsonStringEnd(s, i + 2)
  ELSE JsonStringEnd(s, i + 1)

\* the end of the exponent digits that start at c0
JsonNumberExpDigits(s, c0) ==
  IF SpanDigits(s, c0) > c0 THEN SpanDigits(s, c0) ELSE 0

JsonNumberExp(s, b) ==
  IF b <= Len(s) /\ s[b] \in {"e", "E"}
  THEN JsonNumberExpDigits(s, IF b + 1 <= Len(s) /\ s[b + 1] \in {"-", "+"}
                              THEN b + 2 ELSE b + 1)
  ELSE b

JsonNumberFrac(s, a) ==
  IF a <= Len(s) /\ s[a] = "."
  THEN (IF SpanDigits(s, a + 1) > a + 1
        THEN JsonNumberExp(s, SpanDigits(s, a + 1)) ELSE 0)
  ELSE JsonNumberExp(s, a)

\* the integer part starts at i0: no leading zero before another digit
JsonNumberInt(s, i0) ==
  IF SpanDigits(s, i0) > i0 /\ (s[i0] = "0" => SpanDigits(s, i0) = i0 + 1)
  THEN JsonNumberFrac(s, SpanDigits(s, i0))
  ELSE 0

JsonNumberEnd(s, i) ==
  JsonNumberInt(s, IF i <= Len(s) /\ s[i] = "-" THEN i + 1 ELSE i)

RECURSIVE JsonValue(_, _)
RECURSIVE JsonValueAt(_, _)
RECURSIVE JsonElements(_, _)
RECURSIVE JsonAfterElement(_, _)
RECURSIVE JsonElementSep(_, _)
RECURSIVE JsonMembers(_, _)
RECURSIVE JsonMemberKey(_, _)
RECURSIVE JsonMemberColon(_, _)
RECURSIVE JsonMemberValue(_, _)
RECURSIVE JsonAfterMember(_, _)
RECURSIVE JsonMemberSep(_, _)

JsonValue(s, i) == JsonValueAt(s, SkipSpaces(s, i))

\* the value whose first character is s[j]
JsonValueAt(s, j) ==
  IF j > Len(s) THEN 0
  ELSE IF s[j] = "["
  THEN (IF Matches(s, SkipSpaces(s, j + 1), <<"]">>)
        THEN SkipSpaces(s, j + 1) + 1
        ELSE JsonElements(s, j + 1))
  ELSE IF s[j] = "{"
  THEN (IF Matches(s, SkipSpaces(s, j + 1), <<"}">>)
        THEN SkipSpaces(s, j + 1) + 1
        ELSE JsonMembers(s, j + 1))
  ELSE IF s[j] = "\"" THEN JsonStringEnd(s, j + 1)
  ELSE IF Matches(s, j, TextTrue) THEN j + 4
  ELSE IF Matches(s, j, TextFalse) THEN j + 5
  ELSE IF Matches(s, j, <<"n", "u", "l", "l">>) THEN j + 4
  ELSE JsonNumberEnd(s, j)

\* the elements of an array from i on, up to its closing bracket
JsonElements(s, i) == JsonAfterElement(s, JsonValue(s, i))

JsonAfterElement(s, v) ==
  IF v = 0 THEN 0 ELSE JsonElementSep(s, SkipSpaces(s, v))

JsonElementSep(s, k) ==
  IF k > Len(s) THEN 0
  ELSE IF s[k] = "," THEN JsonElements(s, k + 1)
  ELSE IF s[k] = "]" THEN k + 1
  ELSE 0

\* the members of an object from i on, up to its closing brace
JsonMembers(s, i) == JsonMemberKey(s, SkipSpaces(s, i))

JsonMemberKey(s, j) ==
  IF j <= Len(s) /\ s[j] = "\""
  THEN JsonMemberColon(s, JsonStringEnd(s, j + 1))
  ELSE 0

JsonMemberColon(s, e) ==
  IF e = 0 THEN 0 ELSE JsonMemberValue(s, SkipSpaces(s, e))

JsonMemberValue(s, c) ==
  IF c <= Len(s) /\ s[c] = ":" THEN JsonAfterMember(s, JsonValue(s, c + 1))
  ELSE 0

JsonAfterMember(s, v) ==
  IF v = 0 THEN 0 ELSE JsonMemberSep(s, SkipSpaces(s, v))

JsonMemberSep(s, k) ==
  IF k > Len(s) THEN 0
  ELSE IF s[k] = "," THEN JsonMembers(s, k + 1)
  ELSE IF s[k] = "}" THEN k + 1
  ELSE 0

\* the text is one value and nothing after it
JsonEnds(s, e) == e # 0 /\ SkipSpaces(s, e) = Len(s) + 1

IsJson(s) == JsonEnds(s, JsonValue(s, 1))

\* the outcome of an operation that may throw: its value, or the exception
Ok(v) == [threw |-> FALSE, value |-> v]
Thrown(msg) == [threw |-> TRUE, message |-> msg]

\* JSON.parse(text): the parsed value, or a SyntaxError
JsonParse(s) ==
  IF IsJson(s) THEN Ok([json |-> Trim(s)]) ELSE Thrown("Unexpected token")

(***************************************************************************)
(* QueryBuilder.  Every parse step takes the query built so far and gives  *)
(* the query after it; a step that can throw gives an outcome.             *)
(***************************************************************************)
JsTrue == JsBool(TRUE)
TextCount == <<"_", "c", "o", "u", "n", "t">>
Insensitive == "insensitive"

\* select[relation] after the branch for a dotted field, entry being
\* select[relation] || {select: {}}
SelectSubField(select, relation, subField, entry) ==
  IF Has(entry, "bool")
  \* a property of the primitive true
  THEN Thrown("Cannot set properties")
  ELSE IF subField = TextCount
  THEN Ok(Put(select, relation, Put(entry, "_count", JsTrue)))
  ELSE Ok(Put(select, relation,
              Put(entry, "select", Put(entry.select, subField, JsTrue))))

SelectRelation(select, relation, subField) ==
  SelectSubField(select, relation, subField,
                 IF Has(select, relation) THEN select[relation]
                 ELSE [select |-> EmptyObj])

\* the callback of fields.forEach in parseSelectFields
SelectField(select, trimmed) ==
  IF Includes(trimmed, ".")
  THEN SelectRelation(select, Split(trimmed, ".")[1], Split(trimmed, ".")[2])
  ELSE Ok(Put(select, trimmed, JsTrue))

SelectFieldAfter(prev, trimmed) ==
  IF prev.threw THEN prev ELSE SelectField(prev.value, trimmed)

\* the first n of the comma separated select fields applied to select
RECURSIVE SelectFieldsStep(_, _, _)
SelectFieldsStep(fields, n, select) ==
  IF n = 0 THEN Ok(select)
  ELSE SelectFieldAfter(SelectFieldsStep(fields, n - 1, select),
                        Trim(fields[n]))

SelectFieldsOf(fields) == SelectFieldsStep(fields, Len(fields), EmptyObj)

parseSelectFields(selectParam) == SelectFieldsOf(Split(selectParam, ","))

\* condValue === 'true' ? true : condValue === 'false' ? false : condValue
CoerceBool(v) ==
  IF v = TextTrue THEN JsTrue
  ELSE IF v = TextFalse THEN JsBool(FALSE)
  ELSE v

\* const [condField, condValue] = condition.split('=')
IncludeCondition(cond) ==
  [where |-> (cond[1] :> CoerceBool(IF Len(cond) >= 2 THEN cond[2]
                                    ELSE Null))]

\* the callback of fields.forEach in parseIncludeFields
IncludeField(include, trimmed) ==
  IF trimmed = TextCount THEN Put(include, TextCount, JsTrue)
  ELSE IF Includes(trimmed, ":")
  THEN Put(include, Split(trimmed, ":")[1],
           IncludeCondition(Split(Split(trimmed, ":")[2], "=")))
  ELSE Put(include, trimmed, JsTrue)

RECURSIVE IncludeFieldsStep(_, _, _)
IncludeFieldsStep(fields, n, include) ==
  IF n = 0 THEN include
  ELSE IncludeField(IncludeFieldsStep(fields, n - 1, include),
                    Trim(fields[n]))

IncludeFieldsOf(fields) == IncludeFieldsStep(fields, Len(fields), EmptyObj)

parseIncludeFields(includeParam) == IncludeFieldsOf(Split(includeParam, ","))

\* this.query.select = the parsed select, unless parsing it threw
AssignSelect(query, select) ==
  IF select.threw THEN select ELSE Ok(Put(query, "select", select.value))

parseSelectInclude(query, sp) ==
  IF Truthy(Get(sp, "select"))
  THEN AssignSelect(query, parseSelectFields(Get(sp, "select")))
  ELSE IF Truthy(Get(sp, "include"))
  THEN Ok(Put(query, "include", parseIncludeFields(Get(sp, "include"))))
  ELSE Ok(query)

\* if (exact) whereConditions[field] = exact
WithExact(sp, field, where) ==
  IF Truthy(Get(sp, field)) THEN Put(where, field, Get(sp, field)) ELSE where

\* if (contains) whereConditions[field] = {contains, mode}
WithContains(sp, field, where) ==
  IF Truthy(Get(sp, field \o "Contains"))
  THEN Put(where, field,
           [contains |-> Get(sp, field \o "Contains"), mode |-> Insensitive])
  ELSE where

\* if (startsWith) whereConditions[field] = {startsWith, mode}
WithStartsWith(sp, field, where) ==
  IF Truthy(Get(sp, field \o "StartsWith"))
  THEN Put(where, field,
           [startsWith |-> Get(sp, field \o "StartsWith"),
            mode |-> Insensitive])
  ELSE where

\* if (endsWith) whereConditions[field] = {endsWith, mode}
WithEndsWith(sp, field, where) ==
  IF Truthy(Get(sp, field \o "EndsWith"))
  THEN Put(where, field,
           [endsWith |-> Get(sp, field \o "EndsWith"), mode |-> Insensitive])
  ELSE where

\* the string variants applied with contains last
StringFieldContainsLast(sp, field, where) ==
  WithContains(sp, field,
    WithEndsWith(sp, field,
      WithStartsWith(sp, field,
        WithExact(sp, field, where))))

\* the callback of config.stringFields.forEach
StringField(sp, field, where) ==
  WithEndsWith(sp, field,
    WithStartsWith(sp, field,
      WithContains(sp, field,
        WithExact(sp, field, where))))

RECURSIVE StringFieldsStep(_, _, _, _)
StringFieldsStep(sp, fields, n, where) ==
  IF n = 0 THEN where
  ELSE StringField(sp, fields[n], StringFieldsStep(sp, fields, n - 1, where))

\* new Date(text)
NewDate(text) ==
  [date |-> IF IsIsoDatetime(text) THEN text ELSE <<"Invalid Date">>]

WithGte(bound, range) ==
  IF Truthy(bound.text) THEN Put(range, "gte", bound.value) ELSE range

WithLte(bound, range) ==
  IF Truthy(bound.text) THEN Put(range, "lte", bound.value) ELSE range

\* a bound given as text, and the value the condition holds for it
Bound(text, value) == [text |-> text, value |-> value]

\* if (lo || hi) whereConditions[field] = {gte?, lte?}
WithRange(where, field, lo, hi) ==
  IF Truthy(lo.text) \/ Truthy(hi.text)
  THEN Put(where, field, WithLte(hi, WithGte(lo, EmptyObj)))
  ELSE where

DateBound(text) == Bound(text, IF Truthy(text) THEN NewDate(text) ELSE Null)

\* the callback of config.dateFields.forEach
DateField(sp, field, where) ==
  WithRange(where, field, DateBound(Get(sp, field \o "After")),
            DateBound(Get(sp, field \o "Before")))

RECURSIVE DateFieldsStep(_, _, _, _)
DateFieldsStep(sp, fields, n, where) ==
  IF n = 0 THEN where
  ELSE DateField(sp, fields[n], DateFieldsStep(sp, fields, n - 1, where))

\* the callback of config.booleanFields.forEach
BooleanField(sp, field, where) ==
  IF Get(sp, field) = TextTrue THEN Put(where, field, JsTrue)
  ELSE IF Get(sp, field) = TextFalse THEN Put(where, field, JsBool(FALSE))
  ELSE where

RECURSIVE BooleanFieldsStep(_, _, _, _)
BooleanFieldsStep(sp, fields, n, where) ==
  IF n = 0 THEN where
  ELSE BooleanField(sp, fields[n],
                    BooleanFieldsStep(sp, fields, n - 1, where))

\* if (exact) whereConditions[field] = parseInt(exact)
WithExactNumber(sp, field, where) ==
  IF Truthy(Get(sp, field)) THEN Put(where, field, ParseInt(Get(sp, field)))
  ELSE where

NumberBound(text) == Bound(text, IF Truthy(text) THEN ParseInt(text) ELSE Null)

\* the callback of config.numberFields.forEach
NumberField(sp, field, where) ==
  WithRange(WithExactNumber(sp, field, where), field,
            NumberBound(Get(sp, field \o "Min")),
            NumberBound(Get(sp, field \o "Max")))

RECURSIVE NumberFieldsStep(_, _, _, _)
NumberFieldsStep(sp, fields, n, where) ==
  IF n = 0 THEN where
  ELSE NumberField(sp, fields[n], NumberFieldsStep(sp, fields, n - 1, where))

\* the callback of relationConfig.booleanFilters.forEach
BooleanFilter(sp, relationName, filter, where) ==
  IF Get(sp, filter) = TextTrue
  THEN Put(where, relationName, [some |-> EmptyObj])
  ELSE IF Get(sp, filter) = TextFalse
  THEN Put(where, relationName, [none |-> EmptyObj])
  ELSE where

RECURSIVE BooleanFiltersStep(_, _, _, _, _)
BooleanFiltersStep(sp, relationName, filters, n, where) ==
  IF n = 0 THEN where
  ELSE BooleanFilter(sp, relationName, filters[n],
         BooleanFiltersStep(sp, relationName, filters, n - 1, where))

\* relationName + capitalised field + 'Contains'
SearchKey(relationName, field) ==
  relationName \o Capitalize(field) \o "Contains"

\* the callback of relationConfig.searchableFields.forEach
SearchableField(sp, relationName, field, where) ==
  IF Truthy(Get(sp, SearchKey(relationName, field)))
  THEN Put(where, relationName,
           [some |-> (field :>
                        [contains |-> Get(sp, SearchKey(relationName, field)),
                         mode |-> Insensitive])])
  ELSE where

RECURSIVE SearchableFieldsStep(_, _, _, _, _)
SearchableFieldsStep(sp, relationName, fields, n, where) ==
  IF n = 0 THEN where
  ELSE SearchableField(sp, relationName, fields[n],
         SearchableFieldsStep(sp, relationName, fields, n - 1, where))

\* the callback of Object.entries(config.relations).forEach
Relation(sp, r, where) ==
  SearchableFieldsStep(sp, r.name, r.searchableFields,
                       Len(r.searchableFields),
    BooleanFiltersStep(sp, r.name, r.booleanFilters, Len(r.booleanFilters),
                       where))

RECURSIVE RelationsStep(_, _, _, _)
RelationsStep(sp, relations, n, where) ==
  IF n = 0 THEN where
  ELSE Relation(sp, relations[n], RelationsStep(sp, relations, n - 1, where))

\* the plain conditions, before AND / OR are attached
FieldConditions(sp, config) ==
  RelationsStep(sp, config.relations, Len(config.relations),
    NumberFieldsStep(sp, config.numberFields, Len(config.numberFields),
      BooleanFieldsStep(sp, config.booleanFields, Len(config.booleanFields),
        DateFieldsStep(sp, config.dateFields, Len(config.dateFields),
          StringFieldsStep(sp, config.stringFields,
                           Len(config.stringFields), EmptyObj)))))

\* this.query.where = finalWhere, unless building finalWhere threw
AssignWhere(query, finalWhere) ==
  IF finalWhere.threw THEN finalWhere
  ELSE Ok(Put(query, "where", finalWhere.value))

\* finalWhere[key] = JSON.parse(text), once the parse has an outcome
AssignParsed(finalWhere, key, parsed) ==
  IF parsed.threw THEN parsed
  ELSE Ok(Put(finalWhere.value, key, parsed.value))

\* the text attached as it is, never parsed
WithJsonUnparsed(finalWhere, key, text) ==
  IF finalWhere.threw \/ ~Truthy(text) THEN finalWhere
  ELSE Ok(Put(finalWhere.value, key, [json |-> text]))

\* if (text) finalWhere[key] = JSON.parse(text)
WithJson(finalWhere, key, text) ==
  IF finalWhere.threw \/ ~Truthy(text) THEN finalWhere
  ELSE AssignParsed(finalWhere, key, JsonParse(text))

WhereOf(query, sp, whereConditions) ==
  IF Truthy(Get(sp, "and")) \/ Truthy(Get(sp, "or"))
     \/ DOMAIN whereConditions # {}
  THEN AssignWhere(query,
         WithJson(WithJson(Ok(whereConditions), "AND", Get(sp, "and")),
                  "OR", Get(sp, "or")))
  ELSE Ok(query)

parseWhereConditions(query, sp, config) ==
  WhereOf(query, sp, FieldConditions(sp, config))

\* directions[index]?.trim() || 'asc'
DirectionAt(directions, index) ==
  IF index <= Len(directions) /\ Trim(directions[index]) # <<>>
  THEN Trim(directions[index])
  ELSE TextAsc

\* fields.map((field, index) => ({[field.trim()]: direction}))
OrderList(fields, directions) ==
  [i \in 1..Len(fields) |-> (Trim(fields[i]) :> DirectionAt(directions, i))]

\* the value of query.orderBy for a given orderBy parameter
OrderOf(orderBy, orderDir) ==
  IF Includes(orderBy, ",")
  THEN OrderList(Split(orderBy, ","), Split(orderDir, ","))
  ELSE IF Includes(orderBy, ".")
  THEN (Split(orderBy, ".")[1] :> (Split(orderBy, ".")[2] :> orderDir))
  ELSE (orderBy :> orderDir)

\* searchParams.get('orderDir') || config.defaultOrderDir
OrderDirOf(sp, config) ==
  IF Truthy(Get(sp, "orderDir")) THEN Get(sp, "orderDir")
  ELSE config.defaultOrderDir

parseOrderByKeepingDir(query, sp, config) ==
  IF Truthy(Get(sp, "orderBy"))
  THEN Put(query, "orderBy", OrderOf(Get(sp, "orderBy"), OrderDirOf(sp, config)))
  ELSE Put(query, "orderBy",
           (config.defaultOrderBy :> OrderDirOf(sp, config)))

parseOrderBy(query, sp, config) ==
  IF Truthy(Get(sp, "orderBy"))
  THEN Put(query, "orderBy", OrderOf(Get(sp, "orderBy"), OrderDirOf(sp, config)))
  ELSE Put(query, "orderBy",
           (config.defaultOrderBy :> config.defaultOrderDir))

\* parseInt(searchParams.get('page') || '1')
PageOf(sp) ==
  ParseInt(IF Truthy(Get(sp, "page")) THEN Get(sp, "page") ELSE <<"1">>)

\* Math.min(parseInt(searchParams.get('limit') || defaultLimit), maxLimit)
LimitOf(sp, config) ==
  MathMin(ParseInt(IF Truthy(Get(sp, "limit")) THEN Get(sp, "limit")
                   ELSE Str(config.defaultLimit)),
          config.maxLimit)

\* if (skip) this.query.skip = parseInt(skip)
WithSkip(query, sp) ==
  IF Truthy(Get(sp, "skip"))
  THEN Put(query, "skip", ParseInt(Get(sp, "skip")))
  ELSE query

\* if (take) this.query.take = Math.min(parseInt(take), maxLimit)
WithTake(query, sp, config) ==
  IF Truthy(Get(sp, "take"))
  THEN Put(query, "take",
           MathMin(ParseInt(Get(sp, "take")), config.maxLimit))
  ELSE query

\* the window of a page counted from zero
PageWindowFromZero(query, sp, config) ==
  Put(Put(query, "skip", NumMul(PageOf(sp), LimitOf(sp, config))),
      "take", LimitOf(sp, config))

\* skip = (page - 1) * limit, take = limit
PageWindow(query, sp, config) ==
  Put(Put(query, "skip", NumMul(NumSub(PageOf(sp), 1),
                                LimitOf(sp, config))),
      "take", LimitOf(sp, config))

\* the cursor set, the offset left as it was
WithCursorKeepingSkip(query, sp) ==
  IF Truthy(Get(sp, "cursor"))
  THEN Put(query, "cursor", [id |-> Get(sp, "cursor")])
  ELSE query

\* if (cursor) { this.query.cursor = {id: cursor}; this.query.skip = 1 }
WithCursor(query, sp) ==
  IF Truthy(Get(sp, "cursor"))
  THEN Put(Put(query, "cursor", [id |-> Get(sp, "cursor")]), "skip", Int_(1))
  ELSE query

\* the page window always set, skip and take written over it
parsePaginationPageFirst(query, sp, config) ==
  WithCursor(WithTake(WithSkip(PageWindow(query, sp, config), sp), sp, config),
             sp)

parsePagination(query, sp, config) ==
  WithCursor(IF Truthy(Get(sp, "skip")) \/ Truthy(Get(sp, "take"))
             THEN WithTake(WithSkip(query, sp), sp, config)
             ELSE PageWindow(query, sp, config),
             sp)

\* distinct.split(',').map(field => field.trim())
DistinctOf(fields) == [i \in 1..Len(fields) |-> Trim(fields[i])]

parseDistinct(query, sp) ==
  IF Truthy(Get(sp, "distinct"))
  THEN Put(query, "distinct", DistinctOf(Split(Get(sp, "distinct"), ",")))
  ELSE query

\* .parseOrderBy().parsePagination().parseDistinct(), which cannot throw
AfterWhere(q, sp, config) ==
  IF q.threw THEN q
  ELSE Ok(parseDistinct(parsePagination(parseOrderBy(q.value, sp, config),
                                        sp, config),
                        sp))

AfterSelectInclude(q, sp, config) ==
  IF q.threw THEN q
  ELSE AfterWhere(parseWhereConditions(q.value, sp, config), sp, config)

\* QueryBuilder.fromRequest(request, config).build()
fromRequest(sp, config) ==
  AfterSelectInclude(parseSelectInclude(EmptyObj, sp), sp, config)

(***************************************************************************)
(* The entity routes: the hooks handed to createGenericHandler.            *)
(***************************************************************************)
WithPublishedPosts(sp, where) ==
  IF Get(sp, "hasPublishedPosts") = TextTrue
  THEN Put(where, "posts", [some |-> [published |-> JsTrue]])
  ELSE IF Get(sp, "hasPublishedPosts") = TextFalse
  THEN Put(where, "posts", [none |-> [published |-> JsTrue]])
  ELSE where

WithPostTitle(sp, where) ==
  IF Truthy(Get(sp, "postTitleContains"))
  THEN Put(where, "posts",
           [some |-> [title |-> [contains |-> Get(sp, "postTitleContains"),
                                 mode |-> Insensitive]]])
  ELSE where

customUserFilters(sp, where) ==
  WithPostTitle(sp, WithPublishedPosts(sp, where))

WithAuthorName(sp, where) ==
  IF Truthy(Get(sp, "authorNameContains"))
  THEN Put(where, "author",
           [name |-> [contains |-> Get(sp, "authorNameContains"),
                      mode |-> Insensitive]])
  ELSE where

WithAuthorEmail(sp, where) ==
  IF Truthy(Get(sp, "authorEmailContains"))
  THEN Put(where, "author",
           [email |-> [contains |-> Get(sp, "authorEmailContains"),
                       mode |-> Insensitive]])
  ELSE where

WithPublishedOnly(sp, where) ==
  IF Get(sp, "publishedOnly") = TextTrue THEN Put(where, "published", JsTrue)
  ELSE where

customPostFilters(sp, where) ==
  WithPublishedOnly(sp, WithAuthorEmail(sp, WithAuthorName(sp, where)))

customFilters(entity, sp, where) ==
  IF entity = "user" THEN customUserFilters(sp, where)
  ELSE customPostFilters(sp, where)

\* only the post route has a beforeQuery hook
HasBeforeQuery(entity) == entity = "post"

beforeQueryIgnoringSelect(query) ==
  IF ~Has(query, "include")
  THEN Put(query, "include",
           [author |-> [select |-> [id |-> JsTrue, name |-> JsTrue,
                                    email |-> JsTrue]]])
  ELSE query

beforeQuery(query) ==
  IF ~Has(query, "select") /\ ~Has(query, "include")
  THEN Put(query, "include",
           [author |-> [select |-> [id |-> JsTrue, name |-> JsTrue,
                                    email |-> JsTrue]]])
  ELSE query

\* one result row of the user route: a missing name falls back on the
\* email, and a row that holds neither makes email.split throw
UserDisplayName(user) ==
  IF Has(user, "name") /\ Truthy(user.name) THEN Ok(user.name)
  ELSE IF Has(user, "email") THEN Ok(Split(user.email, "@")[1])
  ELSE Thrown("Cannot read properties of undefined (reading 'split')")

\* content.substring(0, 150) + '...'
Excerpt(content) ==
  (IF Len(content) > 150 THEN SubSeq(content, 1, 150) ELSE content)
  \o <<".", ".", ".">>

afterQueryPost(post) ==
  IF Has(post, "content") /\ Truthy(post.content)
  THEN Put(Put(post, "excerpt", Excerpt(post.content)),
           "wordCount", Len(Split(post.content, " ")))
  ELSE Put(Put(post, "excerpt", Null), "wordCount", 0)

\* results.map of the route's afterQuery
afterQuery(entity, rows) ==
  IF entity = "user"
  THEN (IF \E i \in DOMAIN rows : UserDisplayName(rows[i]).threw
        THEN Thrown("Cannot read properties of undefined (reading 'split')")
        ELSE Ok([i \in DOMAIN rows |->
                   Put(rows[i], "displayName",
                       UserDisplayName(rows[i]).value)]))
  ELSE Ok([i \in DOMAIN rows |-> afterQueryPost(rows[i])])

(***************************************************************************)
(* The persistence layer.  The rows of each table are fixed; how many of   *)
(* them a findMany returns, what a count returns and whether either call   *)
(* fails is up to the database.                                            *)
(***************************************************************************)
TextOf(field) ==
  CASE field = "id" -> <<"i", "d">>
    [] field = "name" -> <<"n", "a", "m", "e">>
    [] field = "email" -> <<"e", "m", "a", "i", "l">>
    [] field = "title" -> <<"t", "i", "t", "l", "e">>
    [] field = "content" -> <<"c", "o", "n", "t", "e", "n", "t">>

\* the i-th stored row: user names and post contents may be null
StoredRow(entity, i) ==
  IF entity = "user"
  THEN [id |-> Str(i),
        name |-> IF i % 2 = 1 THEN Null ELSE <<"A", "d", "a">>,
        email |-> <<"u">> \o Str(i) \o <<"@", "x", ".", "i", "o">>]
  ELSE [id |-> Str(i),
        title |-> <<"T">> \o Str(i),
        content |-> IF i % 2 = 1 THEN Null ELSE <<"a", " ", "b">>]

\* a row as findMany returns it: the selected fields only
Project(row, query) ==
  IF Has(query, "select")
  THEN [f \in {g \in DOMAIN row : Has(query.select, TextOf(g))} |-> row[f]]
  ELSE row

\* what findMany(query) may return: no more rows than take asks for
FindManyResults(entity, query) ==
  {[i \in 1..n |-> Project(StoredRow(entity, i), query)] :
     n \in {m \in 0..MaxRows :
              Has(query, "take") /\ query.take.kind = "int"
              /\ query.take.val >= 0 => m <= query.take.val}}

\* Math.floor(a / b)
MathFloorDiv(a, b) == a \div b

\* Math.ceil(a / b) for a >= 0 and b >= 1
MathCeilDiv(a, b) == IF a % b = 0 THEN a \div b ELSE (a \div b) + 1

(***************************************************************************)
(* The requests the model runs: which parameters are given, and how often. *)
(***************************************************************************)
\* a parameter that is missing or given once with one of the values
Once(values) == {<<>>} \cup {<<v>> : v \in values}

Numerals(lo, hi) == {Str(n) : n \in lo..hi}

PageTexts == Numerals(0, MaxPage) \cup {<<"1", "e", "1">>}
LimitTexts ==
  Numerals(1, 2) \cup {Str(100), Str(101), <<"a", "b", "c">>}
SkipTexts == Numerals(0, MaxSkip) \cup {<<>>, <<"-", "1">>}
TakeTexts == Numerals(0, 2) \cup {Str(100), Str(101)}
CursorTexts == {<<>>, <<"c", "7">>}
FlagTexts == {TextTrue, TextFalse, <<"y", "e", "s">>, <<>>}

\* pagination in every combination
PagingRequests ==
  {[page |-> p, limit |-> l, skip |-> s, take |-> t, cursor |-> c,
    includeTotalCount |-> f] :
     p \in Once(PageTexts), l \in Once(LimitTexts), s \in Once(SkipTexts),
     t \in Once(TakeTexts), c \in Once(CursorTexts), f \in Once({TextTrue})}

\* the includeTotalCount flag in every form, under some page sizes
FlagRequests ==
  {[limit |-> l, includeTotalCount |-> f] :
     l \in Once(LimitTexts), f \in Once(FlagTexts)}

FilterTexts == {<<>>, <<"a", "b">>}

\* the four parameters of one string field of the entity
FilterRequests(entity) ==
  UNION {
    {(field :> e) @@ ((field \o "Contains") :> c)
       @@ ((field \o "StartsWith") :> s) @@ ((field \o "EndsWith") :> w) :
         e \in Once(FilterTexts), c \in Once(FilterTexts),
         s \in Once(FilterTexts), w \in Once(FilterTexts)} :
    field \in Range(ConfigOf(entity).stringFields)}

JsonTexts ==
  {<<>>, <<"[", "]">>, <<"n", "o", "t", "-", "j", "s", "o", "n">>,
   <<"[", "{", "\"", "i", "d", "\"", ":", "1", "}", "]">>,
   <<"[", "{", "i", "d", ":", "1", "}", "]">>}

\* free-form AND / OR conditions
CompositionRequests ==
  {[and |-> a, or |-> o, includeTotalCount |-> f] :
     a \in Once(JsonTexts), o \in Once(JsonTexts), f \in Once({TextTrue})}

\* sort fields, alone, dotted and in lists, and directions
OrderByTexts ==
  {<<"n", "a", "m", "e">>,
   <<"n", "a", "m", "e", ",", " ", "e", "m", "a", "i", "l">>,
   <<"a", "u", "t", "h", "o", "r", ".", "n", "a", "m", "e">>,
   <<"n", "a", "m", "e", ",", "a", "u", "t", "h", "o", "r", ".", "n", "a", "m", "e">>}
OrderDirTexts ==
  {<<"a", "s", "c">>,
   <<"a", "s", "c", ",", "d", "e", "s", "c">>,
   <<" ", "d", "e", "s", "c", " ", ",">>,
   <<"u", "p">>}

OrderRequests ==
  {[orderBy |-> o, orderDir |-> d] :
     o \in Once(OrderByTexts), d \in Once(OrderDirTexts)}

SelectTexts ==
  {<<"i", "d">>,
   <<"i", "d", ",", "n", "a", "m", "e">>,
   <<"p", "o", "s", "t", "s", ".", "t", "i", "t", "l", "e">>,
   <<"i", "d", ",", "i", "d", ".", "x">>}
IncludeTexts ==
  {<<"p", "o", "s", "t", "s">>,
   <<"_", "c", "o", "u", "n", "t">>,
   <<"p", "o", "s", "t", "s", ":", "p", "u", "b", "l", "i", "s", "h", "e", "d", "=", "t", "r", "u", "e">>}

\* projections and inclusions
SelectionRequests ==
  {[select |-> s, include |-> i] :
     s \in Once(SelectTexts), i \in Once(IncludeTexts)}

IsoDate ==
  <<"2", "0", "2", "4", "-", "0", "1", "-", "0", "1", "T", "0", "0", ":", "0", "0", ":", "0", "0", "Z">>
DateTexts == {IsoDate, <<"2", "0", "2", "4">>}

\* the date filters the schemas declare
DateRequests ==
  {[createdAfter |-> a, createdBefore |-> b, updatedAfter |-> c,
    updatedBefore |-> d] :
     a \in Once(DateTexts), b \in Once({IsoDate}),
     c \in Once({IsoDate}), d \in Once({IsoDate})}

BoolTexts == {TextTrue, TextFalse}
EmailTexts ==
  {<<"a", "@", "b", ".", "i", "o">>,
   <<"b", "a", "d">>}

\* the relation filters of the user route
UserRelationRequests ==
  {[hasPublishedPosts |-> p, hasPosts |-> h, postTitleContains |-> t,
    includeTotalCount |-> f] :
     p \in Once(BoolTexts), h \in Once(BoolTexts),
     t \in Once({<<"a", "b">>}), f \in Once({TextTrue})}

\* the relation filters of the post route
PostRelationRequests ==
  {[hasAuthor |-> h, authorNameContains |-> n, authorEmailContains |-> c,
    authorEmail |-> e, publishedOnly |-> p, includeTotalCount |-> f] :
     h \in Once(BoolTexts), n \in Once({<<"a", "b">>}),
     c \in Once({<<"a", "b">>}), e \in Once(EmailTexts),
     p \in Once({TextTrue}), f \in Once({TextTrue})}

RelationRequests(entity) ==
  IF entity = "user" THEN UserRelationRequests ELSE PostRelationRequests

\* query strings that give a parameter twice
RepeatedRequests ==
  [page : {<<>>, <<Str(2), Str(1)>>},
   skip : {<<>>, <<<<"-", "1">>, Str(0)>>},
   take : {<<>>, <<Str(0), Str(1)>>}]

IsRequest(entity, sp) ==
  \/ sp \in PagingRequests
  \/ sp \in FlagRequests
  \/ sp \in FilterRequests(entity)
  \/ sp \in CompositionRequests
  \/ sp \in OrderRequests
  \/ sp \in SelectionRequests
  \/ sp \in DateRequests
  \/ sp \in RelationRequests(entity)
  \/ sp \in RepeatedRequests

(***************************************************************************)
(* ApiClient: the parameters are JavaScript values, validated by the       *)
(* schema of the endpoint before request() turns them into a query string. *)
(***************************************************************************)
Undefined == [type |-> "undefined"]
JsText(text) == [type |-> "string", text |-> text]
JsNum(num) == [type |-> "number", num |-> num]
JsBoolean(bool) == [type |-> "boolean", bool |-> bool]

\* Number(value), the coercion of z.coerce.number()
NumberOf(v) ==
  CASE v.type = "number" -> v.num
    [] v.type = "string" -> ToNumber(v.text)
    [] v.type = "boolean" -> Int_(IF v.bool THEN 1 ELSE 0)

\* one declared key against a JavaScript value: only a coerced number
\* takes a value that is not a string
ParseValue(e, v) ==
  IF v.type = "undefined" THEN ParseField(e, Null)
  ELSE IF e.kind = "number" THEN CoercedNumber(e, NumberOf(v))
  ELSE IF v.type = "string" THEN ParseField(e, v.text)
  ELSE Parsed(Issue(e, "Expected string, received " \o v.type), FALSE, Null)

TypedField(args, e) == IF Has(args, e.key) THEN args[e.key] ELSE Undefined

RECURSIVE TypedIssues(_, _, _)
TypedIssues(schema, args, n) ==
  IF n = 0 THEN <<>>
  ELSE TypedIssues(schema, args, n - 1)
       \o ParseValue(schema[n], TypedField(args, schema[n])).issues

\* schema.safeParse(params).success
ParamsValid(schema, args) == TypedIssues(schema, args, Len(schema)) = <<>>

\* String(value)
StringOf(v) ==
  CASE v.type = "string" -> v.text
    [] v.type = "number" -> Str(v.num.val)
    [] v.type = "boolean" -> IF v.bool THEN TextTrue ELSE TextFalse

\* value !== undefined && value !== null && value !== ''
Sent(v) ==
  v.type # "undefined" /\ ~(v.type = "string" /\ v.text = <<>>)

\* the searchParams request() appends to the URL of the endpoint
SearchParamsOf(args) ==
  [key \in {k \in DOMAIN args : Sent(args[k])} |-> <<StringOf(args[key])>>]

Endpoint(entity) == IF entity = "user" THEN "/users" ELSE "/posts"

NoError == [message |-> "", issues |-> <<>>, status |-> 0]

\* new Error(`Invalid parameters: ${validation.error.message}`)
InvalidParameters(issues) ==
  [message |-> "Invalid parameters: ", issues |-> issues, status |-> 0]

\* the text of an error message
MessageChars(message) ==
  CASE message = "Invalid query parameters" ->
         <<"I", "n", "v", "a", "l", "i", "d", " ", "q", "u", "e", "r", "y",
         " ", "p", "a", "r", "a", "m", "e", "t", "e", "r", "s">>
    [] message = "Failed to fetch user" ->
         <<"F", "a", "i", "l", "e", "d", " ", "t", "o", " ", "f", "e", "t",
         "c", "h", " ", "u", "s", "e", "r">>
    [] message = "Failed to fetch post" ->
         <<"F", "a", "i", "l", "e", "d", " ", "t", "o", " ", "f", "e", "t",
         "c", "h", " ", "p", "o", "s", "t">>
    [] message = "Invalid parameters: " ->
         <<"I", "n", "v", "a", "l", "i", "d", " ", "p", "a", "r", "a", "m",
         "e", "t", "e", "r", "s", ":", " ">>
    [] OTHER -> <<>>

ApiError == <<"A", "P", "I", " ", "E", "r", "r", "o", "r">>

\* message.includes(word)
IncludesText(text, word) == \E i \in 1..Len(text) : Matches(text, i, word)

\* the Error request() throws for a response that is not ok
RequestError(resp) ==
  [message |-> resp.error, issues |-> <<>>, status |-> resp.status]

\* the retry option of the query client: retry(failureCount, error)
retry(failureCount, error) ==
  IF IncludesText(MessageChars(error.message), ApiError) THEN FALSE
  ELSE failureCount < 3

\* no client: the request reaches the route from elsewhere
NoClient ==
  [given |-> FALSE, args |-> EmptyObj, error |-> NoError, fetched |-> <<>>,
   failureCount |-> 0]

\* the params objects the callers of getUsers and getPosts pass
ClientArgs ==
  [page : {Undefined, JsNum(Int_(1)), JsNum(Int_(0)), JsNum(Float_(1)),
           JsText(<<"2">>), JsText(<<"x">>)},
   limit : {Undefined, JsNum(Int_(10)), JsNum(Int_(101)), JsBoolean(TRUE)},
   includeTotalCount : {Undefined, JsBoolean(TRUE), JsText(TextTrue)},
   orderBy : {Undefined, JsText(<<>>), JsText(<<"i", "d">>), JsNum(Int_(1))},
   createdAfter : {Undefined, JsText(IsoDate), JsText(<<"2", "0", "2", "4">>)}]

(***************************************************************************)
(* The handler returned by createGenericHandler, one request at a time.    *)
(***************************************************************************)
VARIABLES
  entity,      \* options.modelName
  params,      \* the URLSearchParams of request.url
  pc,          \* the stage the handler is about to run
  validation,  \* validateQuery's result
  query,       \* the query being built
  results,     \* the rows found
  totalCount,  \* null, or the count
  calls,       \* the calls made so far, in order
  response,    \* the response returned, status 0 while there is none
  client,      \* the ApiClient call the request comes from, if any
  cache,       \* the query cache of the hooks
  configs,     \* the ModelConfig objects, shared by all requests
  suspended    \* a second request in flight, waiting for its turn

vars ==
  <<entity, params, pc, validation, query, results, totalCount, calls,
    response, client, cache, configs, suspended>>

\* a call that returned, and a call that threw
Call(op, arg) == [op |-> op, arg |-> arg, threw |-> FALSE]
Failed(op, arg) == [op |-> op, arg |-> arg, threw |-> TRUE]
NoArg == EmptyObj

NoResponse == [status |-> 0]

\* the catch block of the handler
ErrorResponse(message) ==
  [status |-> 500,
   error |-> "Failed to fetch " \o entity,
   details |-> message]

\* the objects handed to createGenericHandler as options.config
Configs == [e \in Entities |-> ConfigOf(e)]

\* nothing cached, nothing fetched
NoCache ==
  [entries |-> <<>>, fetched |-> {}, last |-> [op |-> "none", id |-> <<>>]]

NoRequest == [pc |-> "None"]

\* a request sent to the route directly, or a call of the client about to
\* be made, with or without a params object
Init ==
  /\ entity \in Entities
  /\ \/ /\ IsRequest(entity, params)
        /\ pc = "Validate"
        /\ client = NoClient
     \/ /\ params = EmptyObj
        /\ pc = "Client"
        /\ \/ client = NoClient
           \/ \E args \in ClientArgs :
                client = [NoClient EXCEPT !.given = TRUE, !.args = args]
  /\ cache = NoCache
  /\ configs = Configs
  /\ suspended = NoRequest
  /\ validation = [success |-> FALSE, data |-> EmptyObj, errors |-> <<>>]
  /\ query = EmptyObj
  /\ results = <<>>
  /\ totalCount = NullNumber
  /\ calls = <<>>
  /\ response = NoResponse

\* the 400 response built, the handler going on all the same
ValidateWithoutReturn ==
  /\ pc = "Validate"
  /\ validation' = validateQuery(SchemaOf(entity), params)
  /\ calls' = Append(calls, Call("validateQuery", NoArg))
  /\ pc' = "Translate"
  /\ response' =
       IF validation'.success THEN response
       ELSE [status |-> 400,
             error |-> "Invalid query parameters",
             validation |-> formatValidationErrors(validation'.errors)]
  /\ UNCHANGED <<entity, params, query, results, totalCount>>
  /\ UNCHANGED <<client, cache, configs, suspended>>

Validate ==
  /\ pc = "Validate"
  /\ validation' = validateQuery(SchemaOf(entity), params)
  /\ calls' = Append(calls, Call("validateQuery", NoArg))
  /\ IF validation'.success
     THEN /\ pc' = "Translate"
          /\ UNCHANGED response
     ELSE /\ pc' = "Done"
          /\ response' =
               [status |-> 400,
                error |-> "Invalid query parameters",
                validation |-> formatValidationErrors(validation'.errors)]
  /\ UNCHANGED <<entity, params, query, results, totalCount>>
  /\ UNCHANGED <<client, cache, configs, suspended>>

\* an error thrown by the translator escaping the handler
TranslateUncaught ==
  /\ pc = "Translate"
  /\ calls' = Append(calls, Call("fromRequest", NoArg))
  /\ \E built \in {fromRequest(params, configs[entity])} :
        IF built.threw
        THEN /\ pc' = "Done"
             /\ UNCHANGED <<query, response>>
        ELSE /\ pc' = "CustomFilters"
             /\ query' = built.value
             /\ UNCHANGED response
  /\ UNCHANGED <<entity, params, validation, results, totalCount>>
  /\ UNCHANGED <<client, cache, configs, suspended>>

Translate ==
  /\ pc = "Translate"
  /\ calls' = Append(calls, Call("fromRequest", NoArg))
  /\ \E built \in {fromRequest(params, configs[entity])} :
        IF built.threw
        THEN /\ pc' = "Done"
             /\ response' = ErrorResponse(built.message)
             /\ UNCHANGED query
        ELSE /\ pc' = "CustomFilters"
             /\ query' = built.value
             /\ UNCHANGED response
  /\ UNCHANGED <<entity, params, validation, results, totalCount>>
  /\ UNCHANGED <<client, cache, configs, suspended>>

\* the custom filters applied, the beforeQuery hook passed over
CustomFiltersThenExecute ==
  /\ pc = "CustomFilters"
  /\ calls' = Append(calls, Call("customFilters", NoArg))
  /\ \E whereConditions \in
          {customFilters(entity, params,
                         IF Has(query, "where") THEN query.where
                         ELSE EmptyObj)} :
        query' = IF DOMAIN whereConditions # {}
                 THEN Put(query, "where", whereConditions)
                 ELSE query
  /\ pc' = "Execute"
  /\ UNCHANGED <<entity, params, validation, results, totalCount, response>>
  /\ UNCHANGED <<client, cache, configs, suspended>>

CustomFilters ==
  /\ pc = "CustomFilters"
  /\ calls' = Append(calls, Call("customFilters", NoArg))
  /\ \E whereConditions \in
          {customFilters(entity, params,
                         IF Has(query, "where") THEN query.where
                         ELSE EmptyObj)} :
        query' = IF DOMAIN whereConditions # {}
                 THEN Put(query, "where", whereConditions)
                 ELSE query
  /\ pc' = "BeforeQuery"
  /\ UNCHANGED <<entity, params, validation, results, totalCount, response>>
  /\ UNCHANGED <<client, cache, configs, suspended>>

BeforeQuery ==
  /\ pc = "BeforeQuery"
  /\ IF HasBeforeQuery(entity)
     THEN /\ query' = beforeQuery(query)
          /\ calls' = Append(calls, Call("beforeQuery", NoArg))
     ELSE UNCHANGED <<query, calls>>
  /\ pc' = "Execute"
  /\ UNCHANGED <<entity, params, validation, results, totalCount, response>>
  /\ UNCHANGED <<client, cache, configs, suspended>>

Execute ==
  /\ pc = "Execute"
  /\ \/ \E rows \in FindManyResults(entity, query) :
          /\ calls' = Append(calls, Call("findMany", query))
          /\ results' = rows
          /\ pc' = "AfterQuery"
          /\ UNCHANGED response
     \/ /\ calls' = Append(calls, Failed("findMany", query))
        /\ pc' = "Done"
        /\ response' = ErrorResponse("findMany failed")
        /\ UNCHANGED results
  /\ UNCHANGED <<entity, params, validation, query, totalCount>>
  /\ UNCHANGED <<client, cache, configs, suspended>>

AfterQuery ==
  /\ pc = "AfterQuery"
  /\ calls' = Append(calls, Call("afterQuery", NoArg))
  /\ \E mapped \in {afterQuery(entity, results)} :
        IF mapped.threw
        THEN /\ pc' = "Done"
             /\ response' = ErrorResponse(mapped.message)
             /\ UNCHANGED results
        ELSE /\ pc' = "Count"
             /\ results' = mapped.value
             /\ UNCHANGED response
  /\ UNCHANGED <<entity, params, validation, query, totalCount>>
  /\ UNCHANGED <<client, cache, configs, suspended>>

\* model.count(query)
CountArgWholeQuery(q) == q

\* model.count(query.where ? {where: query.where} : undefined)
CountArg(q) == IF Has(q, "where") THEN [where |-> q.where] ELSE EmptyObj

\* a failing count answered like a count that was not asked for
CountFailureIgnored ==
  /\ pc = "Count"
  /\ IF validation.data.includeTotalCount
     THEN \/ \E n \in 0..MaxTotal :
               /\ calls' = Append(calls, Call("count", CountArg(query)))
               /\ totalCount' = Int_(n)
          \/ /\ calls' = Append(calls, Failed("count", CountArg(query)))
             /\ UNCHANGED totalCount
     ELSE UNCHANGED <<calls, totalCount>>
  /\ pc' = "Respond"
  /\ UNCHANGED <<entity, params, validation, query, results, response>>
  /\ UNCHANGED <<client, cache, configs, suspended>>

Count ==
  /\ pc = "Count"
  /\ IF validation.data.includeTotalCount
     THEN \/ \E n \in 0..MaxTotal :
               /\ calls' = Append(calls, Call("count", CountArg(query)))
               /\ totalCount' = Int_(n)
               /\ pc' = "Respond"
               /\ UNCHANGED response
          \/ /\ calls' = Append(calls, Failed("count", CountArg(query)))
             /\ pc' = "Done"
             /\ response' = ErrorResponse("count failed")
             /\ UNCHANGED totalCount
     ELSE /\ pc' = "Respond"
          /\ UNCHANGED <<calls, totalCount, response>>
  /\ UNCHANGED <<entity, params, validation, query, results>>
  /\ UNCHANGED <<client, cache, configs, suspended>>

\* pagination[key] = query[key]; JSON drops an undefined member
WithMember(pagination, key, q) ==
  IF Has(q, key) THEN Put(pagination, key, q[key]) ELSE pagination

\* if (totalCount) { totalCount, totalPages }
WithTotalWhenTruthy(pagination, total, limit) ==
  IF total # NullNumber /\ total.val # 0
  THEN Put(Put(pagination, "totalCount", total),
           "totalPages", Int_(MathCeilDiv(total.val, limit.val)))
  ELSE pagination

\* if (totalCount !== null) { totalCount, totalPages }
WithTotal(pagination, total, limit) ==
  IF total # NullNumber
  THEN Put(Put(pagination, "totalCount", total),
           "totalPages", Int_(MathCeilDiv(total.val, limit.val)))
  ELSE pagination

\* the pagination object of the response
Pagination ==
  WithTotal(WithMember(WithMember([page |-> validation.data.page,
                                   limit |-> validation.data.limit],
                                  "skip", query),
                       "take", query),
            totalCount, validation.data.limit)

Respond ==
  /\ pc = "Respond"
  /\ response' = [status |-> 200, data |-> results, pagination |-> Pagination]
  /\ pc' = "Done"
  /\ UNCHANGED <<entity, params, validation, query, results, totalCount,
                 calls>>
  /\ UNCHANGED <<client, cache, configs, suspended>>

\* getUsers and getPosts with the validation left out
ApiClientGetUnvalidated(e) ==
  /\ pc = "Client"
  /\ entity = e
  /\ client' = [client EXCEPT
                  !.fetched = Append(@, [endpoint |-> Endpoint(e),
                                         searchParams |->
                                           SearchParamsOf(client.args)])]
  /\ params' = SearchParamsOf(client.args)
  /\ pc' = "Validate"
  /\ UNCHANGED <<entity, validation, query, results, totalCount, calls,
                 response>>
  /\ UNCHANGED <<cache, configs, suspended>>

\* if (params) {safeParse; if (!success) throw}; return this.request(...)
ApiClientGet(e) ==
  /\ pc = "Client"
  /\ entity = e
  /\ IF client.given /\ ~ParamsValid(SchemaOf(e), client.args)
     THEN /\ client' = [client EXCEPT
                         !.error = InvalidParameters(
                                     TypedIssues(SchemaOf(e), client.args,
                                                 Len(SchemaOf(e))))]
          /\ pc' = "Rejected"
          /\ UNCHANGED params
     ELSE /\ client' = [client EXCEPT
                         !.fetched = Append(@, [endpoint |-> Endpoint(e),
                                                searchParams |->
                                                  SearchParamsOf(client.args)])]
          /\ params' = SearchParamsOf(client.args)
          /\ pc' = "Validate"
  /\ UNCHANGED <<entity, validation, query, results, totalCount, calls,
                 response>>
  /\ UNCHANGED <<cache, configs, suspended>>

getUsers == ApiClientGet("user")

getPosts == ApiClientGet("post")

\* the query function has failed and the retry option asks for another try:
\* the query function is called again and the route, if the call gets that
\* far, handles a new request
Retry ==
  /\ \/ pc = "Rejected"
     \/ pc = "Done" /\ client.fetched # <<>> /\ response.status # 200
  /\ retry(client.failureCount,
           IF pc = "Rejected" THEN client.error ELSE RequestError(response))
  /\ client' = [client EXCEPT !.failureCount = @ + 1, !.error = NoError]
  /\ pc' = "Client"
  /\ params' = EmptyObj
  /\ validation' = [success |-> FALSE, data |-> EmptyObj, errors |-> <<>>]
  /\ query' = EmptyObj
  /\ results' = <<>>
  /\ totalCount' = NullNumber
  /\ calls' = <<>>
  /\ response' = NoResponse
  /\ UNCHANGED entity
  /\ UNCHANGED <<cache, configs, suspended>>

Next ==
  \/ getUsers
  \/ getPosts
  \/ Retry
  \/ Validate
  \/ Translate
  \/ CustomFilters
  \/ BeforeQuery
  \/ Execute
  \/ AfterQuery
  \/ Count
  \/ Respond

Spec == Init /\ [][Next]_vars

(***************************************************************************)
(* The query hooks: the keys they cache under, the enabled option they     *)
(* pass, and the invalidation of cached entries by key.                    *)
(***************************************************************************)
requestVars ==
  <<entity, params, pc, validation, query, results, totalCount, calls,
    response>>

\* the ids the hooks are called with; the empty string is no id
Ids == {<<>>, <<"1">>}

\* a params object as a part of a query key
ParamsObject_(fields) == [type |-> "object", fields |-> fields]

\* Partial<UserQuery> of the list hooks
ListParams == {Undefined, ParamsObject_([page |-> Str(1)])}

\* Pick<UserQuery, 'select' | 'include'> of the detail hooks
DetailParams == {Undefined, ParamsObject_([select |-> <<"i", "d">>])}

\* options?.enabled
EnabledOptions == {Undefined, JsBoolean(TRUE), JsBoolean(FALSE)}

\* queryKeys.users / queryKeys.posts
KeyAll(e) ==
  IF e = "user" THEN <<JsText(<<"u", "s", "e", "r", "s">>)>>
  ELSE <<JsText(<<"p", "o", "s", "t", "s">>)>>
KeyLists(e) == Append(KeyAll(e), JsText(<<"l", "i", "s", "t">>))
KeyList(e, listParams) == Append(KeyLists(e), listParams)
KeyDetails(e) == Append(KeyAll(e), JsText(<<"d", "e", "t", "a", "i", "l">>))
KeyDetail(e, id, detailParams) ==
  KeyDetails(e) \o <<JsText(id), detailParams>>

\* invalidationHelpers.users.detail(id): queryKeys.users.detail(id)
InvalidationDetail(e, id) == KeyDetail(e, id, Undefined)

\* partialMatchKey on two parts of a key: the same value, or two objects of
\* which the first holds every member of the second
PartMatches(a, b) ==
  \/ a = b
  \/ /\ a.type = "object" /\ b.type = "object"
     /\ \A member \in DOMAIN b.fields :
          /\ member \in DOMAIN a.fields
          /\ a.fields[member] = b.fields[member]

\* partialMatchKey(query.queryKey, queryKey): every index of the filter key
\* is compared, an index the cached key lacks being undefined
partialMatchKey(cached, key) ==
  \A i \in 1..Len(key) :
    PartMatches(IF i <= Len(cached) THEN cached[i] ELSE Undefined, key[i])

\* queryClient.invalidateQueries({queryKey: key})
invalidateQueries(entries, key) ==
  [cached \in DOMAIN entries |->
     IF partialMatchKey(cached, key) THEN [stale |-> TRUE]
     ELSE entries[cached]]

\* a && b on the values the enabled option is built from
JsAnd(a, b) ==
  IF a = Undefined \/ a = JsBoolean(FALSE) THEN a ELSE b

\* the query runs unless enabled is false
IsEnabled(enabled) == enabled # JsBoolean(FALSE)

\* useQuery mounted under a key: an enabled query without fresh data fetches
Fetches(key, enabled) ==
  /\ IsEnabled(enabled)
  /\ key \notin DOMAIN cache.entries \/ cache.entries[key].stale

Mounted(key, enabled, request, op) ==
  /\ cache' = IF Fetches(key, enabled)
              THEN [entries |-> Put(cache.entries, key, [stale |-> FALSE]),
                    fetched |-> cache.fetched \cup {request},
                    last |-> op]
              ELSE [cache EXCEPT !.last = op]
  /\ UNCHANGED <<requestVars, client, configs, suspended>>

\* useQuery({queryKey: queryKeys.users.list(params), enabled: options?.enabled})
useUsers ==
  \E listParams \in ListParams, enabled \in EnabledOptions :
    Mounted(KeyList("user", listParams), enabled,
            [entity |-> "user", kind |-> "list", id |-> <<>>],
            [op |-> "useUsers", id |-> <<>>])

\* useQuery({queryKey: queryKeys.<entity>.detail(id, params),
\*           enabled: options?.enabled && !!id})
useDetail(e, op) ==
  \E id \in Ids, detailParams \in DetailParams, enabled \in EnabledOptions :
    Mounted(KeyDetail(e, id, detailParams),
            JsAnd(enabled, JsBoolean(id # <<>>)),
            [entity |-> e, kind |-> "detail", id |-> id],
            [op |-> op, id |-> id])

useUser == useDetail("user", "useUser")

usePost == useDetail("post", "usePost")

\* the hook has invalidated what it invalidates for id
Invalidated(entries, op, id) ==
  /\ cache' = [cache EXCEPT !.entries = entries,
                            !.last = [op |-> op, id |-> id]]
  /\ UNCHANGED <<requestVars, client, configs, suspended>>

\* useUpdateUser: onSuccess(_, {id})
updateUser ==
  \E id \in Ids :
    Invalidated(invalidateQueries(
                  invalidateQueries(cache.entries,
                                    InvalidationDetail("user", id)),
                  KeyLists("user")),
                "updateUser", id)

\* useInvalidateQueries().invalidateUser(id)
invalidateUser ==
  \E id \in Ids :
    Invalidated(invalidateQueries(cache.entries,
                                  InvalidationDetail("user", id)),
                "invalidateUser", id)

\* useInvalidateQueries().invalidatePost(id)
invalidatePost ==
  \E id \in Ids :
    Invalidated(invalidateQueries(cache.entries,
                                  InvalidationDetail("post", id)),
                "invalidatePost", id)

\* the hooks of a component tree, no request of the route in sight
HooksInit ==
  /\ entity = "user"
  /\ params = EmptyObj
  /\ pc = "Hooks"
  /\ client = NoClient
  /\ cache = NoCache
  /\ configs = Configs
  /\ suspended = NoRequest
  /\ validation = [success |-> FALSE, data |-> EmptyObj, errors |-> <<>>]
  /\ query = EmptyObj
  /\ results = <<>>
  /\ totalCount = NullNumber
  /\ calls = <<>>
  /\ response = NoResponse

HooksNext ==
  \/ useUsers
  \/ useUser
  \/ usePost
  \/ updateUser
  \/ invalidateUser
  \/ invalidatePost

HooksSpec == HooksInit /\ [][HooksNext]_vars

(***************************************************************************)
(* The properties of the handler and the translator.                       *)
(***************************************************************************)
\* the positions of the calls of an operation in the call log
CallsOf(op) == {i \in DOMAIN calls : calls[i].op = op}

\* the translator has returned a query for this request
Built == pc \notin {"Validate", "Translate"} /\ DOMAIN query # {}

Absent(key) == Get(params, key) = Null

\* C1: a request whose parameters fail the schema is answered with 400,
\* the error 'Invalid query parameters' and a non-empty list of
\* {field, message} entries, and nothing but validateQuery is ever called
\* for it: no translator, no hook, no findMany, no count.
C1_InvalidRequestRejected ==
  (CallsOf("validateQuery") # {} /\ ~validation.success) =>
    /\ pc = "Done"
    /\ response.status = 400
    /\ response.error = "Invalid query parameters"
    /\ Len(response.validation) >= 1
    /\ \A i \in DOMAIN response.validation :
         DOMAIN response.validation[i] = {"field", "message"}
    /\ \A i \in DOMAIN calls : calls[i].op = "validateQuery"

\* a request with two invalid parameters has been rejected
C1_Witness ==
  /\ pc = "Done"
  /\ ~validation.success
  /\ response.status = 400
  /\ Len(response.validation) = 2

\* C2: page p >= 1 and limit l in 1..100 given, skip, take and cursor not
\* given: the translated query has skip = (p - 1) * l and take = l.
C2_PageWindow ==
  (Built /\ Absent("skip") /\ Absent("take") /\ Absent("cursor")) =>
    \A p \in 1..MaxPage :
      Get(params, "page") = Str(p) =>
        \A l \in 1..100 :
          Get(params, "limit") = Str(l) =>
            /\ Has(query, "skip") /\ query.skip = Int_((p - 1) * l)
            /\ Has(query, "take") /\ query.take = Int_(l)

\* page 2 of pages of 2 rows starts after 2 rows
C2_Witness ==
  /\ Built /\ Absent("skip") /\ Absent("take") /\ Absent("cursor")
  /\ Get(params, "page") = Str(2)
  /\ Get(params, "limit") = Str(2)
  /\ query.skip = Int_(2)
  /\ query.take = Int_(2)

\* the parameter is missing, or is the decimal numeral of a number in S
AbsentOrIn(key, S) == Absent(key) \/ \E n \in S : Get(params, key) = Str(n)

\* C3: skip or take given as numbers, no cursor: the query's skip is the
\* given skip, or missing if none was given, and its take is the given
\* take capped at maxLimit, or missing if none was given; page and limit
\* contribute nothing.
C3_SkipTakeVerbatim ==
  (/\ Built
   /\ Absent("cursor")
   /\ ~(Absent("skip") /\ Absent("take"))
   /\ AbsentOrIn("skip", 0..MaxSkip)
   /\ AbsentOrIn("take", 1..101)) =>
    /\ Absent("skip") => ~Has(query, "skip")
    /\ \A n \in 0..MaxSkip :
         Get(params, "skip") = Str(n) =>
           Has(query, "skip") /\ query.skip = Int_(n)
    /\ Absent("take") => ~Has(query, "take")
    /\ \A n \in 1..101 :
         Get(params, "take") = Str(n) =>
           /\ Has(query, "take")
           /\ query.take =
                Int_(IF n < ConfigOf(entity).maxLimit THEN n
                     ELSE ConfigOf(entity).maxLimit)

\* skip given with a page and a limit but no take: the query has no take
C3_Witness ==
  /\ Built
  /\ Absent("cursor") /\ Absent("take")
  /\ Get(params, "skip") = Str(2)
  /\ Get(params, "page") = Str(2)
  /\ Get(params, "limit") = Str(2)
  /\ query.skip = Int_(2)
  /\ ~Has(query, "take")

\* C4: a non-empty cursor X gives the query cursor = {id: X} and skip = 1,
\* whatever page, limit, skip and take are given with it.
C4_CursorForcesSkipOne ==
  (Built /\ Truthy(Get(params, "cursor"))) =>
    /\ Has(query, "cursor")
    /\ query.cursor = [id |-> Get(params, "cursor")]
    /\ query.skip = Int_(1)

\* a cursor given together with skip = 2 and page = 3
C4_Witness ==
  /\ Built
  /\ Truthy(Get(params, "cursor"))
  /\ Get(params, "skip") = Str(2)
  /\ Get(params, "page") = Str(3)
  /\ query.skip = Int_(1)

\* C5: every query passed to findMany has a take, and 1 <= take <= maxLimit.
C5_TakeBounded ==
  \A i \in CallsOf("findMany") :
    /\ Has(calls[i].arg, "take")
    /\ calls[i].arg.take.kind = "int"
    /\ calls[i].arg.take.val >= 1
    /\ calls[i].arg.take.val <= ConfigOf(entity).maxLimit

\* the variant of a string field is given with a non-empty value
Given(field, variant) == Truthy(Get(params, field \o variant))

\* the case-insensitive condition of a variant of a string field
Condition(field, variant) ==
  CASE variant = "Contains" ->
         [contains |-> Get(params, field \o variant), mode |-> "insensitive"]
    [] variant = "StartsWith" ->
         [startsWith |-> Get(params, field \o variant),
          mode |-> "insensitive"]
    [] variant = "EndsWith" ->
         [endsWith |-> Get(params, field \o variant), mode |-> "insensitive"]

\* C6: of the variants <field>, <field>Contains, <field>StartsWith and
\* <field>EndsWith given with a non-empty value, the last one in the order
\* exact, contains, starts-with, ends-with decides the field's condition.
C6_LastVariantWins ==
  Built =>
    \A field \in Range(ConfigOf(entity).stringFields) :
      /\ Given(field, "EndsWith") =>
           query.where[field] = Condition(field, "EndsWith")
      /\ (Given(field, "StartsWith") /\ ~Given(field, "EndsWith")) =>
           query.where[field] = Condition(field, "StartsWith")
      /\ (/\ Given(field, "Contains")
          /\ ~Given(field, "StartsWith")
          /\ ~Given(field, "EndsWith")) =>
           query.where[field] = Condition(field, "Contains")
      /\ (/\ Given(field, "")
          /\ ~Given(field, "Contains")
          /\ ~Given(field, "StartsWith")
          /\ ~Given(field, "EndsWith")) =>
           query.where[field] = Get(params, field)

\* the exact value and the Contains variant of a field given together
C6_Witness ==
  /\ Built
  /\ \E field \in Range(ConfigOf(entity).stringFields) :
       /\ Given(field, "") /\ Given(field, "Contains")
       /\ ~Given(field, "StartsWith") /\ ~Given(field, "EndsWith")
       /\ query.where[field] = Condition(field, "Contains")

\* C7: without includeTotalCount=true count is never called and the
\* pagination of the response has neither totalCount nor totalPages; with
\* it, a request that succeeds has called count exactly once and reports
\* both, also when the count is 0.
C7_CountOnlyOnRequest ==
  /\ Get(params, "includeTotalCount") # TextTrue =>
       /\ CallsOf("count") = {}
       /\ response.status = 200 =>
            /\ ~Has(response.pagination, "totalCount")
            /\ ~Has(response.pagination, "totalPages")
  /\ (Get(params, "includeTotalCount") = TextTrue /\ response.status = 200) =>
       /\ Cardinality(CallsOf("count")) = 1
       /\ Has(response.pagination, "totalCount")
       /\ Has(response.pagination, "totalPages")

\* a count of 0 has been reported
C7_Witness ==
  /\ Get(params, "includeTotalCount") = TextTrue
  /\ response.status = 200
  /\ Cardinality(CallsOf("count")) = 1
  /\ response.pagination.totalCount = Int_(0)
  /\ Has(response.pagination, "totalPages")

\* pages is the least number of pages of the given size that hold total rows
IsCeiling(pages, total, size) ==
  /\ pages >= 0
  /\ pages * size >= total
  /\ pages > 0 => (pages - 1) * size < total

\* C8: a reported totalPages is ceil(totalCount / limit): 0 exactly when
\* totalCount is 0, and otherwise
\* (totalPages - 1) * limit < totalCount <= totalPages * limit.
C8_TotalPagesIsCeiling ==
  (response.status = 200 /\ Has(response.pagination, "totalCount")) =>
    /\ response.pagination.totalPages.kind = "int"
    /\ IsCeiling(response.pagination.totalPages.val,
                 response.pagination.totalCount.val,
                 response.pagination.limit.val)

\* 3 rows in pages of 2 are reported as 2 pages
C8_Witness ==
  /\ response.status = 200
  /\ Has(response.pagination, "totalCount")
  /\ response.pagination.totalCount = Int_(3)
  /\ response.pagination.limit = Int_(2)
  /\ response.pagination.totalPages = Int_(2)

\* texts that are not JSON
MalformedJson ==
  {<<"n", "o", "t", "-", "j", "s", "o", "n">>,
   <<"[", "{", "i", "d", ":", "1", "}", "]">>}

Malformed(key) == Get(params, key) \in MalformedJson

\* C9: a validated request whose and or or parameter is not JSON gets the
\* response 500 with error and details, and neither findMany nor count is
\* called for it.
C9_MalformedJsonAnswered ==
  (/\ pc \notin {"Validate", "Translate"}
   /\ validation.success
   /\ Malformed("and") \/ Malformed("or")) =>
    /\ pc = "Done"
    /\ response.status = 500
    /\ DOMAIN response = {"status", "error", "details"}
    /\ CallsOf("findMany") = {}
    /\ CallsOf("count") = {}

\* a malformed or next to a well-formed and has been answered
C9_Witness ==
  /\ pc = "Done"
  /\ Malformed("or")
  /\ Truthy(Get(params, "and")) /\ ~Malformed("and")
  /\ response.status = 500
  /\ response.details = "Unexpected token"

\* the positions of the persistence calls that threw
FailedCalls ==
  {i \in DOMAIN calls : calls[i].op \in {"findMany", "count"} /\ calls[i].threw}

\* C10: once findMany or count has thrown, the handler answers 500 with
\* error and details and without data, and makes no further call: the
\* call that threw is the last one, and each persistence operation has
\* been called at most once.
C10_PersistenceFailureAnswered ==
  FailedCalls # {} =>
    /\ pc = "Done"
    /\ response.status = 500
    /\ DOMAIN response = {"status", "error", "details"}
    /\ FailedCalls = {Len(calls)}
    /\ Cardinality(CallsOf("findMany")) = 1
    /\ Cardinality(CallsOf("count")) <= 1

\* count has thrown after findMany returned a row
C10_Witness ==
  /\ FailedCalls # {}
  /\ calls[Len(calls)].op = "count"
  /\ Len(results) >= 1
  /\ response.status = 500
  /\ response.details = "count failed"

\* the stage whose call comes right before the call of op in a request
PrevStage(op) ==
  CASE op = "fromRequest" -> "validateQuery"
    [] op = "customFilters" -> "fromRequest"
    [] op = "beforeQuery" -> "customFilters"
    [] op = "findMany" ->
         IF HasBeforeQuery(entity) THEN "beforeQuery" ELSE "customFilters"
    [] op = "afterQuery" -> "findMany"
    [] op = "count" -> "afterQuery"
    [] OTHER -> "none"

\* C11: the stages of a request run at most once each and in the order
\* Validate, Translate, custom filters, beforeQuery, Execute, afterQuery,
\* Count, Respond: every call follows the call of the stage before it,
\* which returned; a response ends the request; and a 200 response comes
\* after afterQuery or count only.
C11_StagesInOrder ==
  /\ \A i \in DOMAIN calls :
       IF i = 1 THEN calls[i].op = "validateQuery"
       ELSE /\ calls[i - 1].op = PrevStage(calls[i].op)
            /\ ~calls[i - 1].threw
  /\ response.status # 0 => pc = "Done"
  /\ response.status = 200 =>
       /\ Len(calls) >= 1
       /\ ~calls[Len(calls)].threw
       /\ calls[Len(calls)].op =
            IF validation.data.includeTotalCount THEN "count"
            ELSE "afterQuery"

\* a post request has gone through all seven calls and been answered
C11_Witness ==
  /\ entity = "post"
  /\ response.status = 200
  /\ Len(calls) = 7
  /\ calls[4].op = "beforeQuery"
  /\ calls[7].op = "count"

\* C12: count is called with the where object findMany was called with and
\* nothing else, and with no filter when the query has no where.
C12_CountSeesSameWhere ==
  \A i \in CallsOf("count") :
    \A j \in CallsOf("findMany") :
      IF Has(calls[j].arg, "where")
      THEN /\ DOMAIN calls[i].arg = {"where"}
           /\ calls[i].arg.where = calls[j].arg.where
      ELSE DOMAIN calls[i].arg = {}

\* count has been called with a condition the user route's hook has set
C12_Witness ==
  \E i \in CallsOf("count") :
    /\ Has(calls[i].arg, "where")
    /\ Has(calls[i].arg.where, "posts")
    /\ calls[i].arg.where.posts = [some |-> [published |-> JsTrue]]
    /\ \E j \in CallsOf("findMany") : Has(calls[j].arg, "take")

\* C13: a user request with hasPublishedPosts=true and hasPosts=false is
\* executed with the posts condition of hasPosts=false, "no related rows".
C13_HasPostsOverwrites ==
  (/\ entity = "user"
   /\ Get(params, "hasPublishedPosts") = TextTrue
   /\ Get(params, "hasPosts") = TextFalse) =>
    \A i \in CallsOf("findMany") :
      /\ Has(calls[i].arg, "where")
      /\ Has(calls[i].arg.where, "posts")
      /\ DOMAIN calls[i].arg.where.posts = {"none"}
      /\ DOMAIN calls[i].arg.where.posts.none = {}

DateParams ==
  [createdAfter  |-> [field |-> "createdAt", bound |-> "gte"],
   createdBefore |-> [field |-> "createdAt", bound |-> "lte"],
   updatedAfter  |-> [field |-> "updatedAt", bound |-> "gte"],
   updatedBefore |-> [field |-> "updatedAt", bound |-> "lte"]]

\* C14: each of createdAfter, createdBefore, updatedAfter, updatedBefore given
\* a valid ISO datetime d puts the inclusive bound d (gte for After, lte for
\* Before) on createdAt or updatedAt in the where passed to findMany.
C14_DateBounds ==
  \A p \in DOMAIN DateParams :
    (Truthy(Get(params, p)) /\ IsIsoDatetime(Get(params, p))) =>
      \A i \in CallsOf("findMany") :
        /\ Has(calls[i].arg, "where")
        /\ Has(calls[i].arg.where, DateParams[p].field)
        /\ Has(calls[i].arg.where[DateParams[p].field], DateParams[p].bound)
        /\ calls[i].arg.where[DateParams[p].field][DateParams[p].bound]
             = NewDate(Get(params, p))

\* C15: a post request with authorEmail = e is executed with a where that
\* holds the condition "author email equals e".
C15_AuthorEmailEquals ==
  (entity = "post" /\ Truthy(Get(params, "authorEmail"))) =>
    \A i \in CallsOf("findMany") :
      /\ Has(calls[i].arg, "where")
      /\ Has(calls[i].arg.where, "author")
      /\ Has(calls[i].arg.where.author, "email")
      /\ Has(calls[i].arg.where.author.email, "equals")
      /\ calls[i].arg.where.author.email.equals = Get(params, "authorEmail")

\* the directions the request supplies: none when orderDir is absent
SuppliedDirections ==
  IF Truthy(Get(params, "orderDir")) THEN Split(Get(params, "orderDir"), ",")
  ELSE <<>>

OrderFields == Split(Get(params, "orderBy"), ",")

IsOrderList ==
  Truthy(Get(params, "orderBy")) /\ Includes(Get(params, "orderBy"), ",")

\* C16: a comma-separated orderBy of fields f1..fn with m supplied directions
\* (m = 0 when orderDir is absent) gives field i the i-th supplied direction
\* when i <= m and asc otherwise.
C16_ListDirections ==
  (Built /\ IsOrderList) =>
    /\ DOMAIN query.orderBy = 1..Len(OrderFields)
    /\ \A i \in 1..Len(OrderFields) :
         query.orderBy[i]
           = (Trim(OrderFields[i]) :> DirectionAt(SuppliedDirections, i))

\* the relation and the field of a dotted order field
RelationOf(field) == Split(field, ".")[1]
FieldOf(field) == Split(field, ".")[2]

Nested(order, field) ==
  /\ DOMAIN order = {RelationOf(field)}
  /\ DOMAIN order[RelationOf(field)] = {FieldOf(field)}

\* C17: every dotted relation.field in orderBy is translated to the nested
\* form {relation: {field: direction}}, alone or as an element of a comma
\* list.
C17_DottedNested ==
  (Built /\ Truthy(Get(params, "orderBy"))) =>
    IF IsOrderList
    THEN \A i \in 1..Len(OrderFields) :
           Includes(OrderFields[i], ".") =>
             Nested(query.orderBy[i], Trim(OrderFields[i]))
    ELSE Includes(Get(params, "orderBy"), ".") =>
           Nested(query.orderBy, Get(params, "orderBy"))

\* C18: the query passed to findMany never holds both select and include:
\* a supplied select is used and include ignored, include is used only
\* without select, and the post route adds its author include only when the
\* request gave neither.
C18_SelectOrInclude ==
  \A i \in CallsOf("findMany") :
    /\ ~(Has(calls[i].arg, "select") /\ Has(calls[i].arg, "include"))
    /\ IF Truthy(Get(params, "select"))
       THEN /\ Has(calls[i].arg, "select")
            /\ Ok(calls[i].arg.select)
                 = parseSelectFields(Get(params, "select"))
       ELSE IF Truthy(Get(params, "include"))
       THEN /\ Has(calls[i].arg, "include")
            /\ calls[i].arg.include
                 = parseIncludeFields(Get(params, "include"))
       ELSE IF entity = "post"
       THEN /\ Has(calls[i].arg, "include")
            /\ calls[i].arg.include
                 = [author |-> [select |-> [id |-> JsTrue, name |-> JsTrue,
                                            email |-> JsTrue]]]
       ELSE ~Has(calls[i].arg, "include")

C18_Witness ==
  /\ entity = "post"
  /\ Truthy(Get(params, "select"))
  /\ Truthy(Get(params, "include"))
  /\ \E i \in CallsOf("findMany") :
       Has(calls[i].arg, "select") /\ ~Has(calls[i].arg, "include")

NoParams == \A key \in DOMAIN params : params[key] = <<>>

DefaultOrder(config) == (config.defaultOrderBy :> config.defaultOrderDir)

\* C19: for a request without parameters the translator returns exactly
\* the default order, skip 0 and take defaultLimit, and whenever orderBy is
\* absent the order is the configured field and direction, whatever
\* orderDir says.
C19_Defaults ==
  pc = "CustomFilters" =>
    /\ NoParams =>
         /\ DOMAIN query = {"orderBy", "skip", "take"}
         /\ query.orderBy = DefaultOrder(ConfigOf(entity))
         /\ query.skip = Int_(0)
         /\ query.take = Int_(ConfigOf(entity).defaultLimit)
    /\ ~Truthy(Get(params, "orderBy")) =>
         /\ Has(query, "orderBy")
         /\ query.orderBy = DefaultOrder(ConfigOf(entity))

C19_Witness ==
  /\ pc = "CustomFilters"
  /\ ~Truthy(Get(params, "orderBy"))
  /\ Get(params, "orderDir") = TextAsc
  /\ query.orderBy = DefaultOrder(ConfigOf(entity))
  /\ ConfigOf(entity).defaultOrderDir = TextDesc

C19_NoParamsReached == pc = "CustomFilters" /\ NoParams /\ entity = "post"

\* C20: getUsers and getPosts validate their params before any network
\* activity: params that fail the schema are rejected with an error that
\* starts with 'Invalid parameters: ', and no request is ever sent for them.
C20_ValidatedBeforeRequest ==
  (/\ pc # "Client"
   /\ client.given
   /\ ~ParamsValid(SchemaOf(entity), client.args)) =>
    /\ pc = "Rejected"
    /\ client.error.message = "Invalid parameters: "
    /\ Len(client.error.issues) >= 1
    /\ client.fetched = <<>>
    /\ calls = <<>>
    /\ response = NoResponse

C20_Witness ==
  /\ pc = "Rejected"
  /\ entity = "post"
  /\ client.args.page = JsNum(Int_(0))
  /\ client.args.limit = Undefined
  /\ Len(client.error.issues) = 1
  /\ client.fetched = <<>>

\* a call with valid params has been sent and answered
C20_Sent ==
  /\ client.given
  /\ Len(client.fetched) = 1
  /\ client.fetched[1].endpoint = "/users"
  /\ Get(client.fetched[1].searchParams, "limit") = Str(10)
  /\ response.status = 200

\* the params useUsersPaginated and usePostsPaginated build:
\* {page, limit, includeTotalCount: true}, page >= 1 and limit in 1..100
IsPaginatedArgs(args) ==
  /\ args.page.type = "number"
  /\ args.page.num.kind = "int"
  /\ args.page.num.val >= 1
  /\ args.limit.type = "number"
  /\ args.limit.num.kind = "int"
  /\ args.limit.num.val \in 1..100
  /\ args.includeTotalCount = JsBoolean(TRUE)
  /\ args.orderBy = Undefined
  /\ args.createdAfter = Undefined

\* C21: a call with {page, limit, includeTotalCount: true}, page >= 1 and
\* limit in 1..100, passes the client's validation: the request is sent and
\* carries includeTotalCount=true.
C21_PaginatedArgsSent ==
  (pc # "Client" /\ client.given /\ IsPaginatedArgs(client.args)) =>
    /\ pc # "Rejected"
    /\ Len(client.fetched) >= 1
    /\ \A i \in DOMAIN client.fetched :
         Get(client.fetched[i].searchParams, "includeTotalCount") = TextTrue

\* C25: a 200 response to a request paginated by page (no skip, take or
\* cursor) reports take = limit and skip = (page - 1) * limit, on both
\* routes, with or without a limit parameter.
C25_PaginationConsistent ==
  (/\ response.status = 200
   /\ Absent("skip") /\ Absent("take") /\ Absent("cursor")) =>
    /\ Has(response.pagination, "take")
    /\ Has(response.pagination, "skip")
    /\ response.pagination.take = response.pagination.limit
    /\ response.pagination.skip
         = NumMul(NumSub(response.pagination.page, 1),
                  response.pagination.limit)

\* GET /api/posts: the schema's default limit reported, the config's fetched
C25_PostDefaults ==
  /\ entity = "post"
  /\ NoParams
  /\ response.status = 200
  /\ response.pagination.limit = Int_(10)
  /\ response.pagination.take = Int_(20)

\* C26: findMany is called with the pagination that passed validation: skip
\* is never negative, take never below 1, a validated skip or take is the
\* one passed on, and without skip, take and cursor the window is that of
\* the validated page and limit.
C26_ValidatedPagination ==
  \A i \in CallsOf("findMany") :
    /\ Has(calls[i].arg, "skip") =>
         calls[i].arg.skip.kind = "int" /\ calls[i].arg.skip.val >= 0
    /\ Has(calls[i].arg, "take") =>
         calls[i].arg.take.kind = "int" /\ calls[i].arg.take.val >= 1
    /\ Has(validation.data, "skip") =>
         Has(calls[i].arg, "skip")
         /\ (Has(validation.data, "cursor")
             \/ calls[i].arg.skip = validation.data.skip)
    /\ Has(validation.data, "take") =>
         Has(calls[i].arg, "take")
         /\ calls[i].arg.take = validation.data.take
    /\ (/\ ~Has(validation.data, "skip")
        /\ ~Has(validation.data, "take")
        /\ ~Has(validation.data, "cursor")) =>
         /\ Has(calls[i].arg, "skip") /\ Has(calls[i].arg, "take")
         /\ calls[i].arg.take = validation.data.limit
         /\ calls[i].arg.skip
              = NumMul(NumSub(validation.data.page, 1), validation.data.limit)

\* GET /api/users?skip=-1&skip=0 has reached findMany with skip -1
C26_NegativeSkip ==
  /\ DOMAIN params = {"page", "skip", "take"}
  /\ params.skip = <<<<"-", "1">>, Str(0)>>
  /\ params.take = <<>>
  /\ \E i \in CallsOf("findMany") :
       Has(calls[i].arg, "skip") /\ calls[i].arg.skip = Int_(-1)

\* the request without the parameters the schema of the route leaves out
DeclaredOnly(e, sp) == [key \in DOMAIN sp \cap SchemaKeys(e) |-> sp[key]]

WithCustomWhere(q, where) ==
  IF DOMAIN where # {} THEN Put(q, "where", where) ELSE q

Filtered(e, sp, q) ==
  WithCustomWhere(q, customFilters(e, sp, IF Has(q, "where") THEN q.where
                                          ELSE EmptyObj))

\* the query the route passes to findMany for a request it can translate
QueryFor(e, sp) ==
  IF HasBeforeQuery(e)
  THEN beforeQuery(Filtered(e, sp, fromRequest(sp, ConfigOf(e)).value))
  ELSE Filtered(e, sp, fromRequest(sp, ConfigOf(e)).value)

\* the variant of a string field that decides its condition, of the
\* variants whose parameter is one of keys
LastGiven(field, keys) ==
  CASE (field \o "EndsWith") \in keys /\ Given(field, "EndsWith") -> "EndsWith"
    [] OTHER ->
  CASE (field \o "StartsWith") \in keys /\ Given(field, "StartsWith")
         -> "StartsWith"
    [] OTHER ->
  CASE (field \o "Contains") \in keys /\ Given(field, "Contains") -> "Contains"
    [] OTHER ->
  IF field \in keys /\ Given(field, "") THEN "Exact" ELSE "None"

\* two where objects hold the same conditions; the condition of a string
\* field is the one of its deciding variant
SameWhere(e, a, b) ==
  /\ DOMAIN a = DOMAIN b
  /\ \A key \in DOMAIN a :
       IF key \in Range(ConfigOf(e).stringFields)
       THEN LastGiven(key, DOMAIN params) = LastGiven(key, SchemaKeys(e))
       ELSE a[key] = b[key]

SameArgument(e, a, b) ==
  /\ DOMAIN a = DOMAIN b
  /\ \A key \in DOMAIN a \ {"where"} : a[key] = b[key]
  /\ Has(a, "where") => SameWhere(e, a.where, b.where)

\* C27: parameters the schema of the route does not declare have no
\* influence: findMany and count are called with the arguments of the same
\* request without its undeclared parameters.
C27_UndeclaredIgnored ==
  /\ \A i \in CallsOf("findMany") :
       /\ ~fromRequest(DeclaredOnly(entity, params), ConfigOf(entity)).threw
       /\ SameArgument(entity, calls[i].arg,
                       QueryFor(entity, DeclaredOnly(entity, params)))
  /\ \A i \in CallsOf("count") :
       SameArgument(entity, calls[i].arg,
                    CountArg(QueryFor(entity, DeclaredOnly(entity, params))))

\* GET /api/users?nameStartsWith=ab has reached findMany with a condition
\* on name
C27_UndeclaredUsed ==
  /\ entity = "user"
  /\ "nameStartsWith" \notin SchemaKeys("user")
  /\ \A key \in DOMAIN params :
       IF key = "nameStartsWith" THEN params[key] = <<<<"a", "b">>>>
       ELSE params[key] = <<>>
  /\ \E i \in CallsOf("findMany") :
       Has(calls[i].arg, "where") /\ Has(calls[i].arg.where, "name")

Directions == {TextAsc, TextDesc}

\* every direction of an orderBy value built from the orderBy parameter
DirectionsIn(order) ==
  IF IsOrderList
  THEN \A i \in DOMAIN order : \A field \in DOMAIN order[i] :
         order[i][field] \in Directions
  ELSE IF Truthy(Get(params, "orderBy")) /\ Includes(Get(params, "orderBy"), ".")
  THEN \A relation \in DOMAIN order : \A field \in DOMAIN order[relation] :
         order[relation][field] \in Directions
  ELSE \A field \in DOMAIN order : order[field] \in Directions

\* C28: every direction in the orderBy of a query passed to findMany is asc
\* or desc, in the single, the dotted and the comma-list form, whatever
\* orderDir holds.
C28_DirectionsAscDesc ==
  \A i \in CallsOf("findMany") :
    Has(calls[i].arg, "orderBy") => DirectionsIn(calls[i].arg.orderBy)

\* C22: a query that failed because the route answered with a 4xx status is
\* never tried again; other failures are tried again at most 3 times.
C22_NoRetryOn4xx ==
  [][(pc # "Client" /\ pc' = "Client") =>
       /\ client.failureCount < 3
       /\ ~(pc = "Done" /\ response.status \in 400..499)]_vars

\* a query answered with 400 is about to be tried a fourth time
C22_Retried400 ==
  /\ pc = "Done"
  /\ response.status = 400
  /\ client.failureCount = 2
  /\ Len(client.fetched) = 3
  /\ ENABLED Retry

\* the route handles its request under weak fairness: a handler that can
\* take a step takes one
Handler ==
  \/ Validate
  \/ Translate
  \/ CustomFilters
  \/ BeforeQuery
  \/ Execute
  \/ AfterQuery
  \/ Count
  \/ Respond

\* requests of every outcome: rejected by validation, failing in the
\* translator, in a hook or in the persistence calls, and answered
FairRequests ==
  [and : Once({<<"[", "]">>, <<"n", "o", "t", "-", "j", "s", "o", "n">>}),
   select : Once({<<"i", "d">>}),
   includeTotalCount : Once({TextTrue, <<"1">>})]

FairInit ==
  /\ entity \in Entities
  /\ params \in FairRequests
  /\ pc = "Validate"
  /\ client = NoClient
  /\ cache = NoCache
  /\ configs = Configs
  /\ suspended = NoRequest
  /\ validation = [success |-> FALSE, data |-> EmptyObj, errors |-> <<>>]
  /\ query = EmptyObj
  /\ results = <<>>
  /\ totalCount = NullNumber
  /\ calls = <<>>
  /\ response = NoResponse

FairSpec == FairInit /\ [][Handler]_vars /\ WF_vars(Handler)

\* C29: every invocation of the handler ends with one response of status
\* 200, 400 or 500: whatever fails, the handler responds, and once it has
\* responded the response stays.
C29_OneResponse ==
  /\ [](pc = "Validate" => <>(pc = "Done" /\ response.status \in {200, 400, 500}))
  /\ [][response.status # 0 => response' = response /\ pc' = "Done"]_vars
  /\ [](response.status # 0 => pc = "Done")

\* a request whose and parameter is not JSON has been answered with 500
C29_Witness ==
  /\ pc = "Done"
  /\ response.status = 500
  /\ Len(calls) = 2
  /\ calls[2].op = "fromRequest"
  /\ DOMAIN params = {"and", "select", "includeTotalCount"}

\* under retries the response of an invocation stays until the next one
C29_ResponseKept ==
  [][response.status # 0 =>
       \/ response' = response /\ pc' = "Done"
       \/ pc' = "Client"]_vars

IsListKey(key, e) == Len(key) = 3 /\ SubSeq(key, 1, 2) = KeyLists(e)

IsDetailKey(key, e, id) ==
  Len(key) = 4 /\ SubSeq(key, 1, 3) = Append(KeyDetails(e), JsText(id))

\* every cached detail entry of the entity for the id is stale
DetailsStale(e, id) ==
  \A key \in DOMAIN cache.entries :
    IsDetailKey(key, e, id) => cache.entries[key].stale

\* C23: after a successful user update for id every cached users list entry
\* and every cached detail entry of that id is stale, whatever params the
\* detail entry was cached under; after invalidateUser(id) and
\* invalidatePost(id) every cached detail entry of that id is.
C23_PrefixInvalidation ==
  /\ cache.last.op = "updateUser" =>
       /\ DetailsStale("user", cache.last.id)
       /\ \A key \in DOMAIN cache.entries :
            IsListKey(key, "user") => cache.entries[key].stale
  /\ cache.last.op = "invalidateUser" => DetailsStale("user", cache.last.id)
  /\ cache.last.op = "invalidatePost" => DetailsStale("post", cache.last.id)

\* useUser('1', {select: 'id'}) is still fresh after the update of user 1,
\* the list entries and the entry of useUser('1') being stale
C23_DetailMissed ==
  /\ cache.last = [op |-> "updateUser", id |-> <<"1">>]
  /\ DOMAIN cache.entries =
       {KeyList("user", Undefined),
        KeyDetail("user", <<"1">>, Undefined),
        KeyDetail("user", <<"1">>, ParamsObject_([select |-> <<"i", "d">>]))}
  /\ cache.entries[KeyList("user", Undefined)].stale
  /\ cache.entries[KeyDetail("user", <<"1">>, Undefined)].stale
  /\ ~cache.entries[KeyDetail("user", <<"1">>,
                              ParamsObject_([select |-> <<"i", "d">>]))].stale

\* C30: useUser(id) and usePost(id) issue no fetch while id is the empty
\* string, whatever the options argument is, omitted included.
C30_NoFetchWithoutId ==
  \A request \in cache.fetched :
    request.kind = "detail" => request.id # <<>>
(***************************************************************************)
(* Two invocations of the handler in one process.  Each invocation has its *)
(* own locals and its own QueryBuilder; the event loop runs one of them at *)
(* a time and passes to the other one where the running one awaits.  The   *)
(* config objects are the only state the invocations share.                *)
(***************************************************************************)
\* the locals of the running invocation
Locals ==
  [entity |-> entity, params |-> params, pc |-> pc,
   validation |-> validation, query |-> query, results |-> results,
   totalCount |-> totalCount, calls |-> calls, response |-> response]

\* the locals of an invocation that has not run yet
Started(e, sp) ==
  [entity |-> e, params |-> sp, pc |-> "Validate",
   validation |-> [success |-> FALSE, data |-> EmptyObj, errors |-> <<>>],
   query |-> EmptyObj, results |-> <<>>, totalCount |-> NullNumber,
   calls |-> <<>>, response |-> NoResponse]

IsolationRequests ==
  [page : Once({Str(2)}),
   includeTotalCount : Once({TextTrue, <<"1">>})]

\* where the running invocation gives way: before its first statement, at
\* await model.findMany, at await model.count, and when it has returned
Awaits == {"Validate", "Execute", "Count", "Done"}

\* one QueryBuilder query kept by both invocations
SwitchSharedQuery ==
  /\ suspended # NoRequest
  /\ pc \in Awaits
  /\ suspended' = Locals
  /\ entity' = suspended.entity
  /\ params' = suspended.params
  /\ pc' = suspended.pc
  /\ validation' = suspended.validation
  /\ results' = suspended.results
  /\ totalCount' = suspended.totalCount
  /\ calls' = suspended.calls
  /\ response' = suspended.response
  /\ UNCHANGED query
  /\ UNCHANGED <<client, cache, configs>>

\* the event loop passes from the running invocation to the other one
Switch ==
  /\ suspended # NoRequest
  /\ pc \in Awaits
  /\ suspended' = Locals
  /\ entity' = suspended.entity
  /\ params' = suspended.params
  /\ pc' = suspended.pc
  /\ validation' = suspended.validation
  /\ query' = suspended.query
  /\ results' = suspended.results
  /\ totalCount' = suspended.totalCount
  /\ calls' = suspended.calls
  /\ response' = suspended.response
  /\ UNCHANGED <<client, cache, configs>>

IsolationInit ==
  /\ entity \in Entities
  /\ params \in IsolationRequests
  /\ pc = "Validate"
  /\ client = NoClient
  /\ cache = NoCache
  /\ configs = Configs
  /\ suspended \in {Started(e, sp) : e \in Entities, sp \in IsolationRequests}
  /\ validation = [success |-> FALSE, data |-> EmptyObj, errors |-> <<>>]
  /\ query = EmptyObj
  /\ results = <<>>
  /\ totalCount = NullNumber
  /\ calls = <<>>
  /\ response = NoResponse

IsolationNext ==
  \/ Validate
  \/ Translate
  \/ CustomFilters
  \/ BeforeQuery
  \/ Execute
  \/ AfterQuery
  \/ Count
  \/ Respond
  \/ Switch

IsolationSpec == IsolationInit /\ [][IsolationNext]_vars

\* the pagination object of a response, from the values of one invocation
PaginationOf(data, q, total) ==
  WithTotal(WithMember(WithMember([page |-> data.page, limit |-> data.limit],
                                  "skip", q),
                       "take", q),
            total, data.limit)

\* what the invocation r has produced is what its request produces alone:
\* its validation, its argument of findMany and its response are those of
\* its own entity and parameters and of the rows and the count of its own
\* database calls
Alone(r) ==
  /\ (\E i \in 1..Len(r.calls) : r.calls[i].op = "validateQuery") =>
       r.validation = validateQuery(SchemaOf(r.entity), r.params)
  /\ \A i \in 1..Len(r.calls) :
       r.calls[i].op = "findMany" =>
         r.calls[i].arg = QueryFor(r.entity, r.params)
  /\ r.response.status = 400 =>
       /\ ~validateQuery(SchemaOf(r.entity), r.params).success
       /\ r.response =
            [status |-> 400,
             error |-> "Invalid query parameters",
             validation |->
               formatValidationErrors(
                 validateQuery(SchemaOf(r.entity), r.params).errors)]
  /\ r.response.status = 500 =>
       r.response.error = "Failed to fetch " \o r.entity
  /\ r.response.status = 200 =>
       /\ \E rows \in FindManyResults(r.entity,
                                       QueryFor(r.entity, r.params)) :
            /\ ~afterQuery(r.entity, rows).threw
            /\ r.results = afterQuery(r.entity, rows).value
       /\ r.response =
            [status |-> 200,
             data |-> r.results,
             pagination |->
               PaginationOf(validateQuery(SchemaOf(r.entity), r.params).data,
                            QueryFor(r.entity, r.params),
                            r.totalCount)]

\* C24: however two concurrent requests interleave, each one's validation,
\* findMany argument and response are those it produces when run alone, and
\* the shared config objects are never modified.
C24_Isolated ==
  /\ configs = Configs
  /\ Alone(Locals)
  /\ suspended # NoRequest => Alone(suspended)

\* both requests under way, to different entities with different parameters,
\* one waiting for findMany and one waiting for count
C24_Witness ==
  /\ suspended # NoRequest
  /\ pc = "Execute"
  /\ suspended.pc = "Count"
  /\ entity # suspended.entity
  /\ params # suspended.params
  /\ Len(suspended.calls) >= 4

=============================================================================
